---- MODULE Spec2Model ----
(***************************************************************************)
(* Model of the Auth0-backed OAuth provider of task-manager-app            *)
(* (mcp_server/oauth_provider.py): the in-memory client, pending, code,    *)
(* subject, access-token and refresh-token maps, the JWKS cache, and the   *)
(* provider's operations.  A coroutine runs atomically between two awaits  *)
(* that really suspend (the upstream POST, the JWKS GET); the /token       *)
(* handler calls load_* and exchange_* as two separate provider calls.     *)
(*                                                                         *)
(* Time is counted in 1/SubSec seconds so that int(time.time()) differs    *)
(* from time.time().  secrets.token_urlsafe is modelled as drawing a value *)
(* never drawn before (a counter per kind of identifier).                  *)
(***************************************************************************)
EXTENDS Integers, FiniteSets, Sequences, TLC

\* ---------------------------------------------------------------- bounds
SubSec == 2
MaxTicks == 1
MaxStates == 2
MaxTokens == 6
SerialTokens == 4
MaxReq == 2
MaxCb == 1
MaxVerify == 2
MaxTasks == 2
MaxNotifs == 1
MaxCalls == 2

\* ------------------------------------------------------ program constants
CodeTTL == 60
AccessTTL == 3600
JwksTTL == 600

\* ---------------------------------------------------------- input domains
ClientIds == {"c1", "c2"}
Subjects == {"u1", "u2"}
NoSubject == "none"
ParamScopes == {{}, {"r"}}
Metas == {"m1", "m2"}
StateIds == 1..MaxStates
CodeIds == 1..MaxStates
TokenIds == 1..MaxTokens
CodeJumps == {CodeTTL * SubSec, CodeTTL * SubSec + 1}
TokenJumps == {AccessTTL * SubSec + d : d \in 0..SubSec}
Jumps == {1} \cup CodeJumps \cup TokenJumps

None == [none |-> TRUE]

\* ------------------------------------------------------------- dict helpers
Get(m, k) == IF k \in DOMAIN m THEN m[k] ELSE None
Put(m, k, v) == [x \in DOMAIN m \cup {k} |-> IF x = k THEN v ELSE m[x]]
Pop(m, k) == [x \in DOMAIN m \ {k} |-> m[x]]
Empty == [x \in {} |-> None]

VARIABLES
  clients,            \* _clients: client_id -> descriptor
  pending,            \* _pending: state id -> _PendingAuth
  auth_codes,         \* _auth_codes: code -> AuthorizationCode
  auth_code_subject,  \* _auth_code_subject: code -> verified subject
  access_tokens,      \* _access_tokens: token -> AccessToken
  refresh_tokens,     \* _refresh_tokens: token -> RefreshToken
  jwks_cache,         \* _jwks_cache
  jwks_fetched_at,    \* _jwks_fetched_at
  now,                \* time.time(), in 1/SubSec seconds
  ticks,              \* number of clock advances so far
  nState,             \* state ids drawn so far
  nCode,              \* authorization codes drawn so far
  nTok,               \* access/refresh token strings drawn so far
  cb,                 \* complete_auth0_callback calls suspended at an await
  treq,               \* /token authorization_code requests between load and exchange
  rreq,               \* /token refresh_token requests between load and exchange
  minted,             \* history: code -> what the callback that minted it verified and returned
  lineage,            \* history: token -> the code and refresh token it derives from
  passed,             \* history: state id -> calls that got past the pending lookup
  authorized,         \* history: state id -> the arguments and the result of the authorize call that drew it
  last,               \* the provider call that completed last, and its outcome
  v_cache,            \* Auth0TokenVerifier._cache
  vreq,               \* verify_token calls suspended at the JWKS GET
  v_out,              \* the verify_token call that completed last, and its outcome
  tasks,              \* public.tasks: id -> row
  notifs,             \* public.notifications: id -> row
  nTask,              \* task ids generated so far
  nNotif,             \* notification ids generated so far
  calls,              \* _call_tool_request calls suspended at an await
  t_out,              \* the tool call that took the last step, and what it returned
  fin,                \* financial server: the last tool call, its result, its upstream use
  route,              \* /auth/callback: the last request and its response
  scoped,             \* the last _scopes_from_claims call: its claims and its result
  cart                \* shopify app: CART_STORE, variant_id -> quantity

store == <<clients, pending, auth_codes, auth_code_subject, access_tokens,
           refresh_tokens, jwks_cache, jwks_fetched_at>>
vars == <<clients, pending, auth_codes, auth_code_subject, access_tokens,
          refresh_tokens, jwks_cache, jwks_fetched_at, now, ticks, nState,
          nCode, nTok, cb, treq, rreq, minted, lineage, passed, authorized,
          last,
          v_cache, vreq, v_out, tasks, notifs, nTask, nNotif, calls, t_out,
          fin, route, scoped, cart>>

\* The state of the token verifier, and everything outside the provider.
verifier == <<v_cache, vreq, v_out>>
app == <<tasks, notifs, nTask, nNotif, calls, t_out>>
ext == <<fin, route, scoped, cart>>
others == <<verifier, app, ext>>

Secs(t) == t \div SubSec

Call(op, arg, res) == [op |-> op, arg |-> arg, res |-> res]

\* ------------------------------------------------------ upstream responses
NoKid == "none"

\* An id_token as the upstream /oauth/token endpoint may return it: its
\* header (alg, kid) and what jwt.decode will find (signature, aud, iss,
\* exp, sub).
IdToken(alg, kid, sig, aud, iss, exp, sub) ==
  [alg |-> alg, kid |-> kid, sig |-> sig, aud |-> aud, iss |-> iss,
   exp |-> exp, sub |-> sub]

GoodIdToken(u) == IdToken("RS256", "k1", TRUE, TRUE, TRUE, "valid", u)

IdTokens ==
  {GoodIdToken(u) : u \in Subjects} \cup
  {IdToken("HS256", "k1", TRUE, TRUE, TRUE, "valid", "u1"),
   IdToken("RS256", "k2", TRUE, TRUE, TRUE, "valid", "u1"),
   IdToken("RS256", "k1", FALSE, TRUE, TRUE, "valid", "u1")}

\* A JWKS document: the kids of the keys it lists.
JwksDocs == {[keys |-> {"k1"}]}

\* The JSON object {}, and the answers of the JWKS endpoint with it.
EmptyJson == [k \in {} |-> None]
JwksAnswers == JwksDocs \cup {EmptyJson}

\* Python truthiness of a cache attribute that holds None or a dict.
Truthy(doc) == doc # None /\ doc # EmptyJson

\* ------------------------------------------------------------ Init
Idle == [pc |-> "idle"]
NoCall == Call("none", 0, "ok")
NoFin == [tool |-> "none", ticker |-> <<>>, out |-> [kind |-> "none"], yf |-> 0]
NoRoute == [req |-> [kind |-> "none"], status |-> 0, location |-> "", called |-> FALSE]
NoScoped == [called |-> FALSE, claims |-> <<>>, out |-> <<>>]
NoTool == [by |-> "none", tool |-> "none", done |-> FALSE, err |-> FALSE, rows |-> {}]
NoVerify == [tok |-> None, jwks |-> None, out |-> [kind |-> "never"]]

Init ==
  /\ clients = Empty
  /\ pending = Empty
  /\ auth_codes = Empty
  /\ auth_code_subject = Empty
  /\ access_tokens = Empty
  /\ refresh_tokens = Empty
  /\ jwks_cache = None
  /\ jwks_fetched_at = 0
  /\ now = 0
  /\ ticks = 0
  /\ nState = 0
  /\ nCode = 0
  /\ nTok = 0
  /\ cb = {}
  /\ treq = [r \in 1..MaxReq |-> Idle]
  /\ rreq = [r \in 1..MaxReq |-> Idle]
  /\ minted = Empty
  /\ lineage = Empty
  /\ passed = [s \in {} |-> 0]
  /\ authorized = Empty
  /\ last = NoCall
  /\ v_cache = None
  /\ vreq = [r \in 1..MaxVerify |-> Idle]
  /\ v_out = NoVerify
  /\ tasks = Empty
  /\ notifs = Empty
  /\ nTask = 0
  /\ nNotif = 0
  /\ calls = [r \in 1..MaxCalls |-> Idle]
  /\ t_out = NoTool
  /\ fin = NoFin
  /\ route = NoRoute
  /\ scoped = NoScoped
  /\ cart = Empty

\* The lowest free slot of a request table.
FreeSlots(tab) == {r \in DOMAIN tab : tab[r] = Idle}
LowestFree(tab) == CHOOSE r \in FreeSlots(tab) : \A q \in FreeSlots(tab) : r <= q

\* ------------------------------------------------------------ the clock
Tick(d) ==
  /\ ticks < MaxTicks
  /\ now' = now + d
  /\ ticks' = ticks + 1
  /\ UNCHANGED <<store, nState, nCode, nTok, cb, treq, rreq, minted, lineage,
                 passed, authorized, last>>
  /\ UNCHANGED others

\* ------------------------------------------------------------ register_client
\* The descriptor a registration carries: its client_id and the rest of its
\* metadata (redirect URIs, grant types, secret).
ClientInfo(c, meta) == [client_id |-> c, meta |-> meta]

\* The provider is modelled without a database (database_url unset):
\* register_client returns after the in-memory store.
RegisterClient(c, meta) ==
  /\ clients' = Put(clients, c, ClientInfo(c, meta))
  /\ last' = Call("register_client", 0, "ok")
  /\ UNCHANGED <<pending, auth_codes, auth_code_subject, access_tokens,
                 refresh_tokens, jwks_cache, jwks_fetched_at, now, ticks,
                 nState, nCode, nTok, cb, treq, rreq, minted, lineage, passed,
                 authorized>>
  /\ UNCHANGED others

\* ------------------------------------------------------------ authorize
\* A redirect URI: its text up to the query, and its query ("": none).
Uri(base, query) == [base |-> base, query |-> query]
RedirectUris == {Uri("https://a/cb", ""), Uri("https://a/cb", "x=1")}

\* AuthorizationParams as the /authorize handler passes them.
Params(scopes, state, code_challenge, redirect_uri, explicit, resource) ==
  [scopes |-> scopes, state |-> state, code_challenge |-> code_challenge,
   redirect_uri |-> redirect_uri,
   redirect_uri_provided_explicitly |-> explicit, resource |-> resource]

\* The params of a request that differ only in scopes.
DefaultParams(scopes) ==
  Params(scopes, "", "ch1", Uri("https://a/cb", ""), TRUE, "none")

\* params.scopes of a request that named no scope: None, written as a set
\* that no list of scopes equals.
NoScopes == {"None"}

\* The client's own state value ("": none) and the other request fields.
AuthParams ==
  {Params(sc, st, ch, uri, ex, rs) :
     sc \in ParamScopes \cup {NoScopes}, st \in {"", "xyz"}, ch \in {"ch1", "ch2"},
     uri \in RedirectUris, ex \in BOOLEAN, rs \in {"none", "https://a/mcp"}}

PendingAuth(c, params) == [client_id |-> c, params |-> params]

\* Faulty variant: the upstream URL carries no state parameter.
AuthorizeUrl_NoState(state_id) ==
  [base |-> "https://auth0/authorize",
   query |-> <<<<"response_type", "code">>, <<"client_id", "auth0_client_id">>,
               <<"redirect_uri", "public_base_url/auth/callback">>,
               <<"scope", "openid profile email">>>>]

\* The URL authorize returns: the upstream /authorize endpoint with the
\* server's own client id and callback, and the internal state id.
AuthorizeUrl(state_id) ==
  [base |-> "https://auth0/authorize",
   query |-> <<<<"response_type", "code">>, <<"client_id", "auth0_client_id">>,
               <<"redirect_uri", "public_base_url/auth/callback">>,
               <<"scope", "openid profile email">>, <<"state", state_id>>>>]

Authorize(c, params) ==
  /\ c \in DOMAIN clients
  /\ nState < MaxStates
  /\ LET state_id == nState + 1 IN
       /\ nState' = state_id
       /\ pending' = Put(pending, state_id, PendingAuth(c, params))
       /\ authorized' = Put(authorized, state_id,
                             [client_id |-> c, params |-> params,
                              url |-> AuthorizeUrl(state_id)])
       /\ last' = Call("authorize", state_id, "ok")
  /\ UNCHANGED <<clients, auth_codes, auth_code_subject, access_tokens,
                 refresh_tokens, jwks_cache, jwks_fetched_at, now, ticks,
                 nCode, nTok, cb, treq, rreq, minted, lineage, passed>>
  /\ UNCHANGED others

\* ------------------------------------------------------------ complete_auth0_callback
\* _verify_auth0_id_token, the header check before the JWKS is fetched.
HeaderOk(tk) == tk.alg = "RS256" /\ tk.kid # NoKid

\* Faulty variant: a cached copy never gets too old.
JwksFresh_NoTTL(t) == Truthy(jwks_cache)

\* _get_auth0_jwks: a cached copy that is not empty is used while it is
\* younger than the TTL.
JwksFresh(t) ==
  Truthy(jwks_cache) /\ (t - jwks_fetched_at) < JwksTTL * SubSec

\* _verify_auth0_id_token after the JWKS is at hand: the kid lookup raises
\* TokenError, jwt.decode raises its own exceptions, a blank sub raises
\* TokenError.
VerifyWithJwks(tk, jwks) ==
  IF "keys" \notin DOMAIN jwks THEN "invalid_grant"
  ELSE IF tk.kid \notin jwks.keys THEN "invalid_grant"
  ELSE IF ~tk.sig \/ ~tk.aud \/ ~tk.iss \/ tk.exp # "valid" \/ tk.sub = NoSubject
    THEN "jwt_error"
  ELSE IF tk.sub = "" THEN "invalid_grant"
  ELSE "ok"

\* pending.params.scopes or []
ScopesOrEmpty(scopes) == IF scopes = NoScopes \/ scopes = {} THEN {} ELSE scopes

\* The AuthorizationCode minted for a pending authorization.
AuthorizationCode(code, pend, t) ==
  [code |-> code,
   scopes |-> ScopesOrEmpty(pend.params.scopes),
   expires_at |-> t + CodeTTL * SubSec,
   client_id |-> pend.client_id,
   code_challenge |-> pend.params.code_challenge,
   redirect_uri |-> pend.params.redirect_uri,
   redirect_uri_provided_explicitly |->
     pend.params.redirect_uri_provided_explicitly,
   resource |-> pend.params.resource]

\* Faulty variant: the client's state value is left out of the redirect.
RedirectQuery_NoState(pend, code) == <<<<"code", code>>>>

\* The query of the redirect: the new code, then the client's state value
\* when it is not empty.
RedirectQuery(pend, code) ==
  IF pend.params.state # ""
    THEN <<<<"code", code>>, <<"state", pend.params.state>>>>
    ELSE <<<<"code", code>>>>

\* The redirect URL: the redirect URI, "&" when it holds a "?" and "?"
\* otherwise, then the url-encoded query.
RedirectUrl(pend, code) ==
  [uri |-> pend.params.redirect_uri,
   sep |-> IF pend.params.redirect_uri.query # "" THEN "&" ELSE "?",
   query |-> RedirectQuery(pend, code)]

\* Faulty variant: the MCP client's id is stored as the subject of the code.
CodeSubject_Client(pend, sub) == pend.client_id

\* The subject stored beside a freshly minted code.
CodeSubject(pend, sub) == sub

\* Faulty variant: the pending entry is read with get and stays in the map.
TakePending_Get(s) == pending

\* The pending lookup: pop(state, None).
TakePending(s) == Pop(pending, s)

\* The rest of the callback once the id_token and the JWKS are at hand:
\* verification, then the mint of the code and of its subject entry.
CallbackFinish(k, tk, jwks) ==
  LET v == VerifyWithJwks(tk, jwks)
      mcp_code == nCode + 1
  IN IF v = "ok"
       THEN /\ nCode' = mcp_code
            /\ auth_codes' = Put(auth_codes, mcp_code,
                                 AuthorizationCode(mcp_code, k.pend, now))
            /\ auth_code_subject' = Put(auth_code_subject, mcp_code,
                                        CodeSubject(k.pend, tk.sub))
            /\ minted' = Put(minted, mcp_code,
                             [subject |-> tk.sub, state |-> k.state,
                              client |-> k.pend.client_id,
                              url |-> RedirectUrl(k.pend, mcp_code)])
            /\ last' = Call("callback", k.state, "ok")
       ELSE /\ last' = Call("callback", k.state, v)
            /\ UNCHANGED <<nCode, auth_codes, auth_code_subject, minted>>

InFlight(s, pend) == [state |-> s, pend |-> pend, pc |-> "post", tok |-> None, now0 |-> 0]

\* Faulty variant: the upstream POST is issued before the pending lookup.
CallbackStart_PostFirst(s) ==
  /\ Cardinality(cb) < MaxCb
  /\ cb' = cb \cup {InFlight(s, IF s \in DOMAIN pending THEN pending[s]
                                 ELSE PendingAuth("", DefaultParams({})))}
  /\ pending' = TakePending(s)
  /\ passed' = Put(passed, s, IF s \in DOMAIN passed THEN passed[s] + 1 ELSE 1)
  /\ last' = Call("callback", s, "await_post")
  /\ UNCHANGED <<clients, auth_codes, auth_code_subject, access_tokens,
                 refresh_tokens, jwks_cache, jwks_fetched_at, now, ticks,
                 nState, nCode, nTok, treq, rreq, minted, lineage,
                 authorized>>
  /\ UNCHANGED others

\* The call up to its first await: the pending lookup, then the upstream POST.
CallbackStart(s) ==
  /\ IF s \notin DOMAIN pending
         THEN /\ last' = Call("callback", s, "invalid_grant")
              /\ UNCHANGED <<store, now, ticks, nState, nCode, nTok, cb, treq, rreq,
                             minted, lineage, passed, authorized>>
         ELSE /\ Cardinality(cb) < MaxCb
              /\ pending' = TakePending(s)
              /\ cb' = cb \cup {InFlight(s, pending[s])}
              /\ passed' = Put(passed, s, IF s \in DOMAIN passed THEN passed[s] + 1 ELSE 1)
              /\ last' = Call("callback", s, "await_post")
              /\ UNCHANGED <<clients, auth_codes, auth_code_subject, access_tokens,
                             refresh_tokens, jwks_cache, jwks_fetched_at, now, ticks,
                             nState, nCode, nTok, treq, rreq, minted, lineage,
                             authorized>>
  /\ UNCHANGED others

\* The upstream token endpoint answers with an HTTP error status.
CallbackPostError(k) ==
  /\ k \in cb /\ k.pc = "post"
  /\ cb' = cb \ {k}
  /\ last' = Call("callback", k.state, "http_error")
  /\ UNCHANGED <<store, now, ticks, nState, nCode, nTok, treq, rreq, minted,
                 lineage, passed, authorized>>
  /\ UNCHANGED others

\* The upstream token endpoint answers without an id_token.
CallbackNoIdToken(k) ==
  /\ k \in cb /\ k.pc = "post"
  /\ cb' = cb \ {k}
  /\ last' = Call("callback", k.state, "invalid_grant")
  /\ UNCHANGED <<store, now, ticks, nState, nCode, nTok, treq, rreq, minted,
                 lineage, passed, authorized>>
  /\ UNCHANGED others

\* The upstream token endpoint answers with id_token tk: the header check,
\* then the JWKS from the cache (and the call runs to its end) or a GET.
CallbackPostOk(k, tk) ==
  /\ k \in cb /\ k.pc = "post"
  /\ IF ~HeaderOk(tk)
       THEN /\ cb' = cb \ {k}
            /\ last' = Call("callback", k.state, "invalid_grant")
            /\ UNCHANGED <<nCode, auth_codes, auth_code_subject, minted>>
       ELSE IF JwksFresh(now)
         THEN /\ cb' = cb \ {k}
              /\ CallbackFinish(k, tk, jwks_cache)
         ELSE /\ cb' = (cb \ {k}) \cup {[k EXCEPT !.pc = "jwks", !.tok = tk, !.now0 = now]}
              /\ last' = Call("callback", k.state, "await_jwks")
              /\ UNCHANGED <<nCode, auth_codes, auth_code_subject, minted>>
  /\ UNCHANGED <<clients, pending, access_tokens, refresh_tokens, jwks_cache,
                 jwks_fetched_at, now, ticks, nState, nTok, treq, rreq, lineage,
                 passed, authorized>>
  /\ UNCHANGED others

\* Faulty variant: a failed JWKS GET still stamps the cache.
CallbackJwksError_Stamped(k) ==
  /\ k \in cb /\ k.pc = "jwks"
  /\ cb' = cb \ {k}
  /\ jwks_fetched_at' = k.now0
  /\ last' = Call("callback", k.state, "http_error")
  /\ UNCHANGED <<clients, pending, auth_codes, auth_code_subject, access_tokens,
                 refresh_tokens, jwks_cache, now, ticks, nState, nCode, nTok,
                 treq, rreq, minted, lineage, passed, authorized>>
  /\ UNCHANGED others

\* The JWKS GET fails: raise_for_status raises, the cache keeps its value.
CallbackJwksError(k) ==
  /\ k \in cb /\ k.pc = "jwks"
  /\ cb' = cb \ {k}
  /\ last' = Call("callback", k.state, "http_error")
  /\ UNCHANGED <<store, now, ticks, nState, nCode, nTok, treq, rreq, minted,
                 lineage, passed, authorized>>
  /\ UNCHANGED others

\* The JWKS GET returns a document: it is cached under the clock value read
\* before the GET, and the call runs to its end.
CallbackJwksOk(k, doc) ==
  /\ k \in cb /\ k.pc = "jwks"
  /\ cb' = cb \ {k}
  /\ jwks_cache' = doc
  /\ jwks_fetched_at' = k.now0
  /\ CallbackFinish(k, k.tok, doc)
  /\ UNCHANGED <<clients, pending, access_tokens, refresh_tokens, now, ticks,
                 nState, nTok, treq, rreq, lineage, passed, authorized>>
  /\ UNCHANGED others

\* ------------------------------------------------------------ authorization-code grant
\* Faulty variant: the expiry of the code is not looked at.
LoadAuthorizationCode_NoExpiry(c, code) ==
  LET ac == Get(auth_codes, code) IN
    IF ac = None THEN None
    ELSE IF ac.client_id # c THEN None
    ELSE ac

LoadAuthorizationCode(c, code) ==
  LET ac == Get(auth_codes, code) IN
    IF ac = None THEN None
    ELSE IF ac.client_id # c THEN None
    ELSE IF ac.expires_at < now THEN None
    ELSE ac

\* Faulty variant: the subject is taken from the code record and is never missing.
ExchangeSubject_FromCode(c, ac) == ac.client_id

\* The subject looked up in the side map; NoSubject when the entry is gone.
ExchangeSubject(c, ac) ==
  IF ac.code \in DOMAIN auth_code_subject THEN auth_code_subject[ac.code]
  ELSE NoSubject

AccessToken(tok, subject, scopes, t) ==
  [token |-> tok, client_id |-> subject, scopes |-> scopes,
   expires_at |-> Secs(t) + AccessTTL]

RefreshToken(tok, subject, scopes) ==
  [token |-> tok, client_id |-> subject, scopes |-> scopes]

\* Faulty variants: the exchange leaves the code, or its subject entry, in place.
CodesAfterExchange_Kept(ac) == auth_codes
SubjectsAfterExchange_Kept(ac) == auth_code_subject

\* The one-time use of a code: both maps drop it.
CodesAfterExchange(ac) == Pop(auth_codes, ac.code)
SubjectsAfterExchange(ac) == Pop(auth_code_subject, ac.code)

\* A history entry: the code a token derives from, the refresh token it was
\* rotated from (0: none), and the expiry it was minted with (0: a refresh
\* token).
Derived(code, from, exp) == [code |-> code, from |-> from, exp |-> exp]

Loaded(c, obj) == [pc |-> "loaded", client |-> c, obj |-> obj]

\* The /token handler's first provider call: load_authorization_code.
TokenLoad(c, code) ==
  LET ac == LoadAuthorizationCode(c, code) IN
    /\ c \in DOMAIN clients
    /\ IF ac = None
         THEN /\ last' = Call("load_authorization_code", code, "none")
              /\ UNCHANGED treq
         ELSE /\ FreeSlots(treq) # {}
              /\ treq' = [treq EXCEPT ![LowestFree(treq)] = Loaded(c, ac)]
              /\ last' = Call("load_authorization_code", code, "ok")
    /\ UNCHANGED <<store, now, ticks, nState, nCode, nTok, cb, rreq, minted,
                   lineage, passed, authorized>>
    /\ UNCHANGED others

\* The /token handler's second provider call: exchange_authorization_code
\* with the object the load returned.
TokenExchange(r) ==
  /\ treq[r] # Idle
  /\ LET c == treq[r].client
         ac == treq[r].obj
         user_subject == ExchangeSubject(c, ac)
         access == nTok + 1
         refresh == nTok + 2
     IN IF user_subject = NoSubject
          THEN /\ last' = Call("exchange_authorization_code", ac.code, "invalid_grant")
               /\ UNCHANGED <<auth_codes, auth_code_subject, access_tokens,
                              refresh_tokens, nTok, lineage>>
          ELSE /\ nTok + 2 <= MaxTokens
               /\ nTok' = nTok + 2
               /\ access_tokens' = Put(access_tokens, access,
                    AccessToken(access, user_subject, ac.scopes, now))
               /\ refresh_tokens' = Put(refresh_tokens, refresh,
                    RefreshToken(refresh, user_subject, ac.scopes))
               /\ auth_codes' = CodesAfterExchange(ac)
               /\ auth_code_subject' = SubjectsAfterExchange(ac)
               /\ lineage' = Put(Put(lineage, access,
                                     Derived(ac.code, 0, access_tokens'[access].expires_at)),
                                 refresh, Derived(ac.code, 0, 0))
               /\ last' = Call("exchange_authorization_code", ac.code, "ok")
  /\ treq' = [treq EXCEPT ![r] = Idle]
  /\ UNCHANGED <<clients, pending, jwks_cache, jwks_fetched_at, now, ticks,
                 nState, nCode, cb, rreq, minted, passed, authorized>>
  /\ UNCHANGED others

\* ------------------------------------------------------------ refresh-token grant
RefreshScopeArgs == {{}, {"r", "w"}}

LoadRefreshToken(c, t) == Get(refresh_tokens, t)

RefreshLoad(c, t) ==
  LET rt == LoadRefreshToken(c, t) IN
    /\ c \in DOMAIN clients
    /\ IF rt = None
         THEN /\ last' = Call("load_refresh_token", t, "none")
              /\ UNCHANGED rreq
         ELSE /\ FreeSlots(rreq) # {}
              /\ rreq' = [rreq EXCEPT ![LowestFree(rreq)] = Loaded(c, rt)]
              /\ last' = Call("load_refresh_token", t, "ok")
    /\ UNCHANGED <<store, now, ticks, nState, nCode, nTok, cb, treq, minted,
                   lineage, passed, authorized>>
    /\ UNCHANGED others

\* scopes or refresh_token.scopes
RequestedScopes(rt, scopes) == IF scopes # {} THEN scopes ELSE rt.scopes

\* Faulty variant: the old refresh token stays valid.
RefreshAfterRotation_Kept(m, rt) == m

\* The old refresh token is dropped.
RefreshAfterRotation(m, rt) == Pop(m, rt.token)

RefreshExchange(r, scopes) ==
  /\ rreq[r] # Idle
  /\ nTok + 2 <= MaxTokens
  /\ LET c == rreq[r].client
         rt == rreq[r].obj
         access == nTok + 1
         refresh == nTok + 2
         requested_scopes == RequestedScopes(rt, scopes)
         user_subject == rt.client_id
         origin == IF rt.token \in DOMAIN lineage THEN lineage[rt.token].code ELSE 0
     IN /\ nTok' = nTok + 2
        /\ access_tokens' = Put(access_tokens, access,
             AccessToken(access, user_subject, requested_scopes, now))
        /\ refresh_tokens' = RefreshAfterRotation(
             Put(refresh_tokens, refresh,
                 RefreshToken(refresh, user_subject, requested_scopes)), rt)
        /\ lineage' = Put(Put(lineage, access,
                              Derived(origin, rt.token, access_tokens'[access].expires_at)),
                          refresh, Derived(origin, rt.token, 0))
        /\ last' = Call("exchange_refresh_token", rt.token, "ok")
  /\ rreq' = [rreq EXCEPT ![r] = Idle]
  /\ UNCHANGED <<clients, pending, auth_codes, auth_code_subject, jwks_cache,
                 jwks_fetched_at, now, ticks, nState, nCode, cb, treq, minted,
                 passed, authorized>>
  /\ UNCHANGED others

\* ------------------------------------------------------------ load_access_token, revoke_token
\* The expiry test: expires_at and expires_at < int(time.time()).
Expired(at, t) == at.expires_at # 0 /\ at.expires_at < Secs(t)

LoadAccessTokenAt(tok, t) ==
  LET at == Get(access_tokens, tok) IN
    IF at = None THEN None
    ELSE IF Expired(at, t) THEN None
    ELSE at

\* Faulty variant: a load that finds the token expired evicts it.
LoadAccessTokenCall_Evicts(tok) ==
  /\ last' = Call("load_access_token", tok, IF LoadAccessTokenAt(tok, now) = None THEN "none" ELSE "ok")
  /\ access_tokens' = IF tok \in DOMAIN access_tokens /\ Expired(access_tokens[tok], now)
                        THEN Pop(access_tokens, tok) ELSE access_tokens
  /\ UNCHANGED <<clients, pending, auth_codes, auth_code_subject,
                 refresh_tokens, jwks_cache, jwks_fetched_at, now, ticks,
                 nState, nCode, nTok, cb, treq, rreq, minted,
                 lineage, passed, authorized>>
  /\ UNCHANGED others

LoadAccessTokenCall(tok) ==
  /\ last' = Call("load_access_token", tok, IF LoadAccessTokenAt(tok, now) = None THEN "none" ELSE "ok")
  /\ UNCHANGED <<store, now, ticks, nState, nCode, nTok, cb, treq, rreq, minted,
                 lineage, passed, authorized>>
  /\ UNCHANGED others

\* Faulty variant: the token issued in the same exchange is revoked too.
RevokeToken_Pair(tok) ==
  /\ access_tokens' = Pop(Pop(access_tokens, tok), tok - 1)
  /\ refresh_tokens' = Pop(Pop(refresh_tokens, tok), tok + 1)
  /\ last' = Call("revoke_token", tok, "ok")
  /\ UNCHANGED <<clients, pending, auth_codes, auth_code_subject, jwks_cache,
                 jwks_fetched_at, now, ticks, nState, nCode, nTok, cb, treq,
                 rreq, minted, lineage, passed, authorized>>
  /\ UNCHANGED others

RevokeToken(tok) ==
  /\ access_tokens' = Pop(access_tokens, tok)
  /\ refresh_tokens' = Pop(refresh_tokens, tok)
  /\ last' = Call("revoke_token", tok, "ok")
  /\ UNCHANGED <<clients, pending, auth_codes, auth_code_subject, jwks_cache,
                 jwks_fetched_at, now, ticks, nState, nCode, nTok, cb, treq,
                 rreq, minted, lineage, passed, authorized>>
  /\ UNCHANGED others

\* ------------------------------------------------------------ get_client
\* get_client without a database: the cached descriptor, or None.
GetClient(c) == Get(clients, c)

GetClientCall(c) ==
  /\ last' = Call("get_client", c, IF GetClient(c) = None THEN "none" ELSE "ok")
  /\ UNCHANGED <<store, now, ticks, nState, nCode, nTok, cb, treq, rreq, minted,
                 lineage, passed, authorized>>
  /\ UNCHANGED others

\* ------------------------------------------------------------ Auth0TokenVerifier
\* Everything of the provider, which the verifier does not touch.
provider == <<store, ticks, nState, nCode, nTok, cb, treq, rreq, minted,
              lineage, passed, authorized, last>>

\* The bearer tokens presented to verify_token: one that passes every check
\* for each subject, and one per way of failing a check.
BearerTokens ==
  {GoodIdToken(u) : u \in Subjects} \cup
  {IdToken("HS256", "k1", TRUE, TRUE, TRUE, "valid", "u1"),
   IdToken("RS256", NoKid, TRUE, TRUE, TRUE, "valid", "u1"),
   IdToken("RS256", "k2", TRUE, TRUE, TRUE, "valid", "u1"),
   IdToken("RS256", "k1", FALSE, TRUE, TRUE, "valid", "u1"),
   IdToken("RS256", "k1", TRUE, FALSE, TRUE, "valid", "u1"),
   IdToken("RS256", "k1", TRUE, TRUE, FALSE, "valid", "u1"),
   IdToken("RS256", "k1", TRUE, TRUE, TRUE, "missing", "u1"),
   IdToken("RS256", "k1", TRUE, TRUE, TRUE, "expired", "u1"),
   IdToken("RS256", "k1", TRUE, TRUE, TRUE, "valid", NoSubject),
   IdToken("RS256", "k1", TRUE, TRUE, TRUE, "valid", "")}

\* The JSON documents the JWKS endpoint may answer with: a key list, an
\* empty key list, and an object without a key list.
VerifierJwksDocs == JwksDocs \cup {[keys |-> {}], [error |-> "nokeys"]}

\* The clock steps around the TTL of the verifier's cache.
JwksJumps == {JwksTTL * SubSec - 1, JwksTTL * SubSec}

\* _JwksCache
JwksCache(jwks, fetched_at) == [jwks |-> jwks, fetched_at |-> fetched_at]

\* _get_jwks: the cached copy is returned while it is younger than
\* jwks_ttl_seconds.
VerifierCacheFresh(t) ==
  v_cache # None /\ (t - v_cache.fetched_at) < JwksTTL * SubSec

\* The AccessToken verify_token builds; client_id is the sub claim.
VerifiedToken(tk) ==
  [kind |-> "token", token |-> tk, client_id |-> tk.sub, expires_at |-> tk.exp]

\* What the try block of verify_token does once the JWKS is at hand: return
\* None, raise (jwt.decode), or return the AccessToken.
VerifyBody(tk, jwks) ==
  IF "keys" \notin DOMAIN jwks THEN [kind |-> "none"]
  ELSE IF tk.kid \notin jwks.keys THEN [kind |-> "none"]
  ELSE IF ~tk.sig \/ ~tk.aud \/ ~tk.iss \/ tk.exp # "valid" \/ tk.sub = NoSubject
    THEN [kind |-> "raise"]
  ELSE IF tk.sub = "" THEN [kind |-> "none"]
  ELSE VerifiedToken(tk)

\* Faulty variant: an exception of the try block propagates.
Caught_Propagated(out) == out

\* except Exception: return None
Caught(out) == IF out.kind = "raise" THEN [kind |-> "none"] ELSE out

Verified(tk, jwks, out) == [tok |-> tk, jwks |-> jwks, out |-> Caught(out)]

\* Faulty variant: a JWKS GET is issued only when none is in flight.
VerifyStart_SingleFlight(tk) ==
  /\ IF ~HeaderOk(tk)
       THEN /\ v_out' = Verified(tk, None, [kind |-> "none"])
            /\ UNCHANGED vreq
       ELSE IF VerifierCacheFresh(now)
         THEN /\ v_out' = Verified(tk, v_cache.jwks, VerifyBody(tk, v_cache.jwks))
              /\ UNCHANGED vreq
         ELSE /\ \A r \in DOMAIN vreq : vreq[r] = Idle
              /\ vreq' = [vreq EXCEPT ![LowestFree(vreq)] =
                            [pc |-> "jwks", tok |-> tk, now0 |-> now]]
              /\ UNCHANGED v_out
  /\ UNCHANGED <<v_cache, provider, now, app, ext>>

\* verify_token up to its first await: the header check, then the JWKS from
\* the cache (and the call runs to its end) or a GET.
VerifyStart(tk) ==
  /\ IF ~HeaderOk(tk)
       THEN /\ v_out' = Verified(tk, None, [kind |-> "none"])
            /\ UNCHANGED vreq
       ELSE IF VerifierCacheFresh(now)
         THEN /\ v_out' = Verified(tk, v_cache.jwks, VerifyBody(tk, v_cache.jwks))
              /\ UNCHANGED vreq
         ELSE /\ FreeSlots(vreq) # {}
              /\ vreq' = [vreq EXCEPT ![LowestFree(vreq)] =
                            [pc |-> "jwks", tok |-> tk, now0 |-> now]]
              /\ UNCHANGED v_out
  /\ UNCHANGED <<v_cache, provider, now, app, ext>>

\* The JWKS GET fails: raise_for_status raises inside the try block.
VerifyJwksError(r) ==
  /\ vreq[r] # Idle
  /\ vreq' = [vreq EXCEPT ![r] = Idle]
  /\ v_out' = Verified(vreq[r].tok, None, [kind |-> "raise"])
  /\ UNCHANGED <<v_cache, provider, now, app, ext>>

\* The JWKS GET returns a document: it is cached under the clock value read
\* before the GET, and the call runs to its end.
VerifyJwksOk(r, doc) ==
  /\ vreq[r] # Idle
  /\ vreq' = [vreq EXCEPT ![r] = Idle]
  /\ v_cache' = JwksCache(doc, vreq[r].now0)
  /\ v_out' = Verified(vreq[r].tok, doc, VerifyBody(vreq[r].tok, doc))
  /\ UNCHANGED <<provider, now, app, ext>>

\* ------------------------------------------------------------ task-manager tools
\* Everything outside the task-manager tables and tool calls, but the clock.
notApp == <<provider, verifier, ext>>

\* get_user_subject's value when the request carries no subject.
Unknown == "unknown"
TaskUsers == Subjects \cup {Unknown}

\* An absent optional argument, and an absent idempotency key (SQL NULL).
NullArg == "null"
NoKey == "null"

\* The short-window dedupe of create_task, in seconds.
DedupeWindow == 10
TaskJumps == {DedupeWindow * SubSec - 1, DedupeWindow * SubSec}

\* A row of public.tasks (content_md and due_at are absent throughout).
TaskRow(id, u, subject, status, key, t) ==
  [id |-> id, user_subject |-> u, subject |-> subject, status |-> status,
   idempotency_key |-> key, created_at |-> t]

\* A row of public.notifications.
NotifRow(id, u, status) == [id |-> id, user_subject |-> u, status |-> status]

\* The arguments of a tool call.
Request(tool, id, subject, status, key) ==
  [tool |-> tool, id |-> id, subject |-> subject, status |-> status, key |-> key]

ToolRequests ==
  {Request("create-task", 0, sj, "not_started", k) :
     sj \in {"a", "b"}, k \in {NoKey, "k1"}} \cup
  {Request("list-tasks", 0, NullArg, st, NoKey) : st \in {NullArg, "completed"}} \cup
  {Request(t, id, NullArg, NullArg, NoKey) :
     t \in {"get-task", "delete-task"}, id \in 1..MaxTasks} \cup
  {Request("update-task", id, sj, "completed", NoKey) :
     id \in 1..MaxTasks, sj \in {NullArg, "b"}} \cup
  {Request("create-notification-intent", 0, NullArg, NullArg, NoKey),
   Request("list-notifications", 0, NullArg, NullArg, NoKey)} \cup
  {Request(t, id, NullArg, "sent", NoKey) :
     t \in {"cancel-notification", "mark-notification-status"},
     id \in 1..MaxNotifs}

\* The rows of a table that a where-clause keeps.
RowsOf(tab, u) == {tab[i] : i \in {j \in DOMAIN tab : tab[j].user_subject = u}}

\* What a tool call reports: an error flag and the rows it returns.
ToolResult(r, err, rows) ==
  [by |-> calls[r].user, tool |-> calls[r].req.tool, done |-> TRUE,
   err |-> err, rows |-> rows]

\* A step of a call that has not returned yet.
ToolPending(u, tool) ==
  [by |-> u, tool |-> tool, done |-> FALSE, err |-> FALSE, rows |-> {}]

\* _call_tool_request up to its first query: the subject, then the pool.
\* The migration of 'unknown' rows is tried for every other subject.
CallToolBegin(u, req) ==
  /\ FreeSlots(calls) # {}
  /\ calls' = [calls EXCEPT ![LowestFree(calls)] =
                 [pc |-> IF u # Unknown THEN "chk1" ELSE "tool",
                  user |-> u, req |-> req, seen |-> FALSE]]
  /\ t_out' = ToolPending(u, req.tool)
  /\ UNCHANGED <<tasks, notifs, nTask, nNotif, now, notApp>>

\* select 1 from tasks where user_subject = $1
MigrateCheckUser(r) ==
  /\ calls[r] # Idle /\ calls[r].pc = "chk1"
  /\ calls' = [calls EXCEPT ![r].pc = "chk2",
                            ![r].seen = RowsOf(tasks, calls[r].user) # {}]
  /\ t_out' = ToolPending(calls[r].user, calls[r].req.tool)
  /\ UNCHANGED <<tasks, notifs, nTask, nNotif, now, notApp>>

\* select 1 from tasks where user_subject = 'unknown'
MigrateCheckUnknown(r) ==
  /\ calls[r] # Idle /\ calls[r].pc = "chk2"
  /\ calls' = [calls EXCEPT ![r].pc =
                 IF ~calls[r].seen /\ RowsOf(tasks, Unknown) # {}
                   THEN "mig" ELSE "tool"]
  /\ t_out' = ToolPending(calls[r].user, calls[r].req.tool)
  /\ UNCHANGED <<tasks, notifs, nTask, nNotif, now, notApp>>

\* No two rows share a user_subject and a non-null idempotency key.
KeyUnique(tab) ==
  \A i \in DOMAIN tab, j \in DOMAIN tab :
    (i # j /\ tab[i].idempotency_key # NoKey
       /\ tab[i].idempotency_key = tab[j].idempotency_key)
      => tab[i].user_subject # tab[j].user_subject

\* update tasks set user_subject = $1 where user_subject = 'unknown'
Migrated(tab, u) ==
  [i \in DOMAIN tab |->
     IF tab[i].user_subject = Unknown THEN [tab[i] EXCEPT !.user_subject = u]
     ELSE tab[i]]

\* The update runs; a violated unique constraint raises and is swallowed.
MigrateExec(r) ==
  /\ calls[r] # Idle /\ calls[r].pc = "mig"
  /\ calls' = [calls EXCEPT ![r].pc = "tool"]
  /\ tasks' = IF KeyUnique(Migrated(tasks, calls[r].user))
                THEN Migrated(tasks, calls[r].user) ELSE tasks
  /\ t_out' = ToolPending(calls[r].user, calls[r].req.tool)
  /\ UNCHANGED <<notifs, nTask, nNotif, now, notApp>>

\* The call in slot r is about to run the statement of tool t.
AtTool(r, t) == calls[r] # Idle /\ calls[r].pc = "tool" /\ calls[r].req.tool = t

\* The call in slot r returns.
Return(r, err, rows) ==
  /\ calls' = [calls EXCEPT ![r] = Idle]
  /\ t_out' = ToolResult(r, err, rows)

\* The row with the latest created_at (order by created_at desc limit 1).
Latest(rows) == CHOOSE x \in rows : \A y \in rows :
                  y.created_at < x.created_at
                    \/ (y.created_at = x.created_at /\ y.id <= x.id)

\* create_task without an idempotency key: the short-window dedupe select.
CreateTaskDedupe(r) ==
  /\ AtTool(r, "create-task") /\ calls[r].req.key = NoKey
  /\ LET q == calls[r].req
         existing == {x \in RowsOf(tasks, calls[r].user) :
                        /\ x.subject = q.subject /\ x.status = q.status
                        /\ x.created_at > now - DedupeWindow * SubSec}
     IN IF existing # {}
          THEN Return(r, FALSE, {Latest(existing)})
          ELSE /\ calls' = [calls EXCEPT ![r].pc = "insert"]
               /\ t_out' = ToolPending(calls[r].user, q.tool)
  /\ UNCHANGED <<tasks, notifs, nTask, nNotif, now, notApp>>

\* Faulty variant: a plain insert, without the on-conflict clause.
Conflicting_PlainInsert(u, key) == {}

\* The rows the insert conflicts with under the unique constraint on
\* (user_subject, idempotency_key); a NULL key conflicts with nothing.
Conflicting(u, key) ==
  {x \in RowsOf(tasks, u) : key # NoKey /\ x.idempotency_key = key}

\* create_task's insert ... on conflict do update ... returning *.
CreateTaskInsert(r) ==
  /\ calls[r] # Idle /\ calls[r].req.tool = "create-task"
  /\ \/ calls[r].pc = "insert"
     \/ calls[r].pc = "tool" /\ calls[r].req.key # NoKey
  /\ LET q == calls[r].req
         u == calls[r].user
         hit == Conflicting(u, q.key)
         rec == TaskRow(nTask + 1, u, q.subject, q.status, q.key, now)
     IN IF hit # {}
          THEN /\ Return(r, FALSE, hit)
               /\ UNCHANGED <<tasks, nTask>>
          ELSE /\ nTask < MaxTasks
               /\ nTask' = nTask + 1
               /\ tasks' = Put(tasks, rec.id, rec)
               /\ Return(r, FALSE, {rec})
  /\ UNCHANGED <<notifs, nNotif, now, notApp>>

\* list_tasks; the limit is never reached at these table sizes.
ListTasks(r) ==
  /\ AtTool(r, "list-tasks")
  /\ Return(r, FALSE,
            {x \in RowsOf(tasks, calls[r].user) :
               calls[r].req.status = NullArg \/ x.status = calls[r].req.status})
  /\ UNCHANGED <<tasks, notifs, nTask, nNotif, now, notApp>>

\* where user_subject = $1 and id = $2
OwnRow(tab, u, id) == {x \in RowsOf(tab, u) : x.id = id}

GetTask(r) ==
  /\ AtTool(r, "get-task")
  /\ LET rec == OwnRow(tasks, calls[r].user, calls[r].req.id)
     IN Return(r, rec = {}, rec)
  /\ UNCHANGED <<tasks, notifs, nTask, nNotif, now, notApp>>

\* coalesce($n, column)
Coalesce(arg, old) == IF arg = NullArg THEN old ELSE arg

UpdateTask(r) ==
  /\ AtTool(r, "update-task")
  /\ LET q == calls[r].req
         rec == OwnRow(tasks, calls[r].user, q.id)
     IN IF rec = {}
          THEN /\ Return(r, TRUE, {})
               /\ UNCHANGED tasks
          ELSE /\ tasks' = [tasks EXCEPT
                              ![q.id].subject = Coalesce(q.subject, @),
                              ![q.id].status = Coalesce(q.status, @)]
               /\ Return(r, FALSE, {tasks'[q.id]})
  /\ UNCHANGED <<notifs, nTask, nNotif, now, notApp>>

DeleteTask(r) ==
  /\ AtTool(r, "delete-task")
  /\ LET rec == OwnRow(tasks, calls[r].user, calls[r].req.id)
     IN IF rec = {}
          THEN /\ Return(r, TRUE, {})
               /\ UNCHANGED tasks
          ELSE /\ tasks' = Pop(tasks, calls[r].req.id)
               /\ Return(r, FALSE, rec)
  /\ UNCHANGED <<notifs, nTask, nNotif, now, notApp>>

\* create_notification_intent with a valid scheduled_for and send_now unset:
\* one draft row.
CreateNotificationIntent(r) ==
  /\ AtTool(r, "create-notification-intent")
  /\ nNotif < MaxNotifs
  /\ nNotif' = nNotif + 1
  /\ notifs' = Put(notifs, nNotif + 1, NotifRow(nNotif + 1, calls[r].user, "draft"))
  /\ Return(r, FALSE, {notifs'[nNotif + 1]})
  /\ UNCHANGED <<tasks, nTask, now, notApp>>

ListNotifications(r) ==
  /\ AtTool(r, "list-notifications")
  /\ Return(r, FALSE, RowsOf(notifs, calls[r].user))
  /\ UNCHANGED <<tasks, notifs, nTask, nNotif, now, notApp>>

\* update notifications set status = ... where user_subject = $1 and id = $2
SetNotifStatus(r, status) ==
  LET rec == OwnRow(notifs, calls[r].user, calls[r].req.id)
  IN IF rec = {}
       THEN /\ Return(r, TRUE, {})
            /\ UNCHANGED notifs
       ELSE /\ notifs' = [notifs EXCEPT ![calls[r].req.id].status = status]
            /\ Return(r, FALSE, {notifs'[calls[r].req.id]})

CancelNotification(r) ==
  /\ AtTool(r, "cancel-notification")
  /\ SetNotifStatus(r, "cancelled")
  /\ UNCHANGED <<tasks, nTask, nNotif, now, notApp>>

MarkNotificationStatus(r) ==
  /\ AtTool(r, "mark-notification-status")
  /\ SetNotifStatus(r, calls[r].req.status)
  /\ UNCHANGED <<tasks, nTask, nNotif, now, notApp>>

\* The tool statement of the call in slot r.
ToolStep(r) ==
  \/ CreateTaskDedupe(r) \/ CreateTaskInsert(r) \/ ListTasks(r) \/ GetTask(r)
  \/ UpdateTask(r) \/ DeleteTask(r) \/ CreateNotificationIntent(r)
  \/ ListNotifications(r) \/ CancelNotification(r) \/ MarkNotificationStatus(r)

\* ------------------------------------------------------------ financial server
\* Everything but the financial server's variable.
notFin == <<provider, now, verifier, app, route, scoped, cart>>

\* A ticker string is a sequence of characters over a small alphabet.
MaxTickerLen == 3
Whitespace == {" ", "\t"}
TickerChars == Whitespace \cup {"a", "M"}
Tickers == UNION {[1..n -> TickerChars] : n \in 0..MaxTickerLen}

\* str.strip(): leading and trailing whitespace removed.
RECURSIVE LStrip(_)
LStrip(str) ==
  IF str # <<>> /\ Head(str) \in Whitespace THEN LStrip(Tail(str)) ELSE str

RECURSIVE RStrip(_)
RStrip(str) ==
  IF str # <<>> /\ str[Len(str)] \in Whitespace
    THEN RStrip(SubSeq(str, 1, Len(str) - 1)) ELSE str

\* Faulty variant: the ticker is not stripped.
Strip_Missing(str) == str

Strip(str) == LStrip(RStrip(str))

\* str.upper()
Upper(str) == [i \in DOMAIN str |-> IF str[i] = "a" THEN "A" ELSE str[i]]

\* ticker.strip().upper()
CleanTicker(ticker) == Upper(Strip(ticker))

ListTools == {"get_sec_filings", "get_recommendations",
              "get_institutional_holders", "get_insider_transactions"}
DictTools == {"get_analyst_targets", "get_dividends", "get_splits",
              "get_sector_info", "get_financial_statements"}
TickerTools == {"get_stock_summary"} \cup ListTools \cup DictTools

\* What yfinance answers: data, nothing, or an exception.
Upstream == {"rows", "nothing", "raise"}

Text(msg) == [kind |-> "text", text |-> msg]
EmptyList == [kind |-> "list", items |-> "none"]
EmptyDict == [kind |-> "dict", items |-> "none"]

\* The value a tool returns for a blank ticker.
BlankValue(tool) ==
  IF tool = "get_stock_summary" THEN Text("Ticker symbol is required.")
  ELSE IF tool \in ListTools THEN EmptyList
  ELSE EmptyDict

\* The value a tool returns once yfinance has answered.
UpstreamValue(tool, ticker, clean, up) ==
  IF tool = "get_stock_summary"
    THEN IF up = "raise" THEN [kind |-> "text", text |-> "Error retrieving stock data", ticker |-> ticker]
         ELSE IF up = "nothing" THEN [kind |-> "text", text |-> "No recent data found", ticker |-> clean]
         ELSE [kind |-> "text", text |-> "Summary", ticker |-> clean]
  ELSE IF tool \in ListTools
    THEN IF up = "raise" THEN [kind |-> "list", items |-> "error"]
         ELSE IF up = "nothing" THEN EmptyList
         ELSE [kind |-> "list", items |-> "records"]
  ELSE IF up = "raise" THEN [kind |-> "dict", items |-> "error"]
       ELSE IF up = "nothing"
         THEN IF tool \in {"get_sector_info", "get_financial_statements"}
                THEN [kind |-> "dict", items |-> "empty fields"]
                ELSE EmptyDict
       ELSE [kind |-> "dict", items |-> "mapping"]

\* A call of a ticker tool; yf counts the yfinance.Ticker objects it built.
TickerTool(tool, ticker, up) ==
  /\ LET clean_ticker == CleanTicker(ticker) IN
       fin' = IF clean_ticker = <<>>
                THEN [tool |-> tool, ticker |-> ticker,
                      out |-> BlankValue(tool), yf |-> 0]
                ELSE [tool |-> tool, ticker |-> ticker,
                      out |-> UpstreamValue(tool, ticker, clean_ticker, up),
                      yf |-> 1]
  /\ UNCHANGED notFin

\* ------------------------------------------------------------ /auth/callback
\* Everything but the route's variable.
notRoute == <<provider, now, verifier, app, fin, scoped, cart>>

\* A query parameter: absent, empty, or holding a value.
QueryValues == {"absent", "", "v"}

\* A request: whether a provider is configured, and the two parameters.
CallbackRequest(configured, state, code) ==
  [kind |-> "get", configured |-> configured, state |-> state, code |-> code]

JsonResponse(req, error) ==
  [req |-> req, status |-> 400, location |-> error, called |-> FALSE]

\* not state or not code
Missing(v) == v = "absent" \/ v = ""

\* The request is answered before the provider is called: no provider, or
\* a missing state or code.
RouteReject(req) ==
  /\ ~req.configured \/ Missing(req.state) \/ Missing(req.code)
  /\ route' = IF ~req.configured THEN JsonResponse(req, "auth_not_configured")
              ELSE JsonResponse(req, "invalid_callback")
  /\ UNCHANGED notRoute

\* Faulty variant: only TokenError is caught; anything else propagates.
RouteResponse_TokenErrorOnly(res, url) ==
  IF res = "ok" THEN [status |-> 302, location |-> url]
  ELSE IF res = "invalid_grant" THEN [status |-> 400, location |-> "callback_failed"]
  ELSE [status |-> 500, location |-> "raise"]

\* The answer to a request that reached the provider, from the outcome of
\* complete_auth0_callback: a redirect to the URL it returned, or
\* except Exception: a JSON 400.
RouteResponse(res, url) ==
  IF res = "ok" THEN [status |-> 302, location |-> url]
  ELSE [status |-> 400, location |-> "callback_failed"]

\* A complete_auth0_callback call has just ended.
CallbackEnded ==
  last.op = "callback" /\ last.res \notin {"await_post", "await_jwks"}

\* The answer to the request whose provider call has just ended.
LastResponse ==
  RouteResponse(last.res, IF last.res = "ok" THEN minted[nCode].url ELSE None)

\* ------------------------------------------------------------ _scopes_from_claims
\* Everything but the variable of the scope derivation.
notScoped == <<provider, now, verifier, app, fin, route, cart>>

MaxScopeLen == 3
MaxPerms == 2

\* A JSON value of the claims object: null (also: the key is absent), a
\* number, a string (a sequence of characters) or a list of numbers and
\* strings.
JNull == [type |-> "null", str |-> <<>>, items |-> <<>>]
JInt == [type |-> "int", str |-> <<>>, items |-> <<>>]
JStr(str) == [type |-> "str", str |-> str, items |-> <<>>]
JList(items) == [type |-> "list", str |-> <<>>, items |-> items]

ScopeChars == {"a", "b", " ", "\t"}
ScopeStrings == UNION {[1..n -> ScopeChars] : n \in 0..MaxScopeLen}
PermItems == {[type |-> "int", str |-> <<>>], [type |-> "str", str |-> <<>>],
              [type |-> "str", str |-> <<"a">>], [type |-> "str", str |-> <<"b">>]}
PermLists == UNION {[1..n -> PermItems] : n \in 0..MaxPerms}

\* The claims objects: every scope and permissions value.
ClaimsObjects ==
  {[scope |-> sc, permissions |-> pm] :
     sc \in {JNull, JInt} \cup {JStr(str) : str \in ScopeStrings},
     pm \in {JNull, JStr(<<"a">>)} \cup {JList(items) : items \in PermLists}}

\* str.split(" ")
RECURSIVE Split(_)
Split(str) ==
  IF \A i \in DOMAIN str : str[i] # " " THEN <<str>>
  ELSE LET i == CHOOSE i \in DOMAIN str :
                  str[i] = " " /\ \A j \in 1..(i - 1) : str[j] # " "
       IN <<SubSeq(str, 1, i - 1)>> \o Split(SubSeq(str, i + 1, Len(str)))

\* [s for s in items if s]
NonEmpty(items) == SelectSeq(items, LAMBDA s : s # <<>>)

\* [p for p in perms if isinstance(p, str) and p]
StringItems(perms) ==
  LET kept == SelectSeq(perms, LAMBDA p : p.type = "str" /\ p.str # <<>>)
  IN [i \in DOMAIN kept |-> kept[i].str]

\* Faulty variant: duplicates are kept.
Dedupe_None(scopes) == scopes

\* The de-dupe loop: an item is appended unless it has been seen.
RECURSIVE Dedupe(_)
Dedupe(scopes) ==
  IF scopes = <<>> THEN <<>>
  ELSE LET out == Dedupe(SubSeq(scopes, 1, Len(scopes) - 1))
           s == scopes[Len(scopes)]
       IN IF \E i \in DOMAIN out : out[i] = s THEN out ELSE Append(out, s)

ScopesFromClaims(claims) ==
  LET scope_str == claims.scope
      perms == claims.permissions
      from_scope == IF scope_str.type = "str" /\ Strip(scope_str.str) # <<>>
                      THEN NonEmpty(Split(scope_str.str)) ELSE <<>>
      from_perms == IF perms.type = "list" THEN StringItems(perms.items) ELSE <<>>
  IN Dedupe(from_scope \o from_perms)

\* One call of _scopes_from_claims.
ScopesCall(claims) ==
  /\ scoped' = [called |-> TRUE, claims |-> claims, out |-> ScopesFromClaims(claims)]
  /\ UNCHANGED notScoped

\* ------------------------------------------------------------ shopping_cart
\* Everything but CART_STORE.
notCart == <<provider, now, verifier, app, fin, route, scoped>>

MaxQty == 2
MaxItems == 2
MaxStored == 3

\* CartItem: any variant id and any int quantity validate.
VariantIds == {"v1", "v2", "v3"}
Quantities == (0 - MaxQty)..MaxQty
CartItem == [variant_id : VariantIds, quantity : Quantities]

\* ManageCartInput: action is any string, items a list of CartItem.
CartActions == {"add", "remove", "view", "clear", "update"}
ItemLists == UNION {[1..n -> CartItem] : n \in 0..MaxItems}

\* CART_STORE.get(variant_id, 0)
StoreGet(cs, v) == IF v \in DOMAIN cs THEN cs[v] ELSE 0

\* The loop of action "add".
RECURSIVE CartAdd(_, _)
CartAdd(cs, items) ==
  IF items = <<>> THEN cs
  ELSE LET item == Head(items)
       IN  CartAdd(Put(cs, item.variant_id,
                       StoreGet(cs, item.variant_id) + item.quantity),
                   Tail(items))

\* max(0, current_qty - item.quantity)
NewQty(current_qty, quantity) ==
  IF current_qty - quantity > 0 THEN current_qty - quantity ELSE 0

\* The loop of action "remove".
RECURSIVE CartRemove(_, _)
CartRemove(cs, items) ==
  IF items = <<>> THEN cs
  ELSE LET item == Head(items)
           new_qty == NewQty(StoreGet(cs, item.variant_id), item.quantity)
       IN  CartRemove(IF new_qty > 0 THEN Put(cs, item.variant_id, new_qty)
                      ELSE IF item.variant_id \in DOMAIN cs
                        THEN Pop(cs, item.variant_id)
                      ELSE cs,
                      Tail(items))

\* The store after the update block of the shopping_cart handler.
CartUpdate(cs, action, items) ==
  IF action = "add" THEN CartAdd(cs, items)
  ELSE IF action = "remove" THEN CartRemove(cs, items)
  ELSE IF action = "clear" THEN Empty
  ELSE cs

\* One shopping_cart tool call; what follows the update block only reads
\* the store.
ShoppingCart(action, items) ==
  /\ cart' = CartUpdate(cart, action, items)
  /\ \A v \in DOMAIN cart' : cart'[v] \in (0 - MaxStored)..MaxStored
  /\ UNCHANGED notCart

\* ------------------------------------------------------------ the specifications
\* Every operation of the provider, over the full input sets.
Next ==
  \/ \E d \in Jumps : Tick(d)
  \/ \E c \in ClientIds, m \in Metas : RegisterClient(c, m)
  \/ \E c \in ClientIds, ps \in AuthParams : Authorize(c, ps)
  \/ \E s \in StateIds : CallbackStart(s)
  \/ \E k \in cb : CallbackPostError(k)
  \/ \E k \in cb : CallbackNoIdToken(k)
  \/ \E k \in cb, tk \in IdTokens : CallbackPostOk(k, tk)
  \/ \E k \in cb : CallbackJwksError(k)
  \/ \E k \in cb, doc \in JwksAnswers : CallbackJwksOk(k, doc)
  \/ \E c \in ClientIds, code \in CodeIds : TokenLoad(c, code)
  \/ \E r \in 1..MaxReq : TokenExchange(r)
  \/ \E c \in ClientIds, t \in TokenIds : RefreshLoad(c, t)
  \/ \E r \in 1..MaxReq, sc \in RefreshScopeArgs : RefreshExchange(r, sc)
  \/ \E t \in TokenIds : LoadAccessTokenCall(t)
  \/ \E t \in TokenIds : RevokeToken(t)
  \/ \E c \in ClientIds : GetClientCall(c)
  \/ \E tk \in BearerTokens : VerifyStart(tk)
  \/ \E r \in 1..MaxVerify : VerifyJwksError(r)
  \/ \E r \in 1..MaxVerify, doc \in VerifierJwksDocs : VerifyJwksOk(r, doc)
  \/ \E u \in TaskUsers, q \in ToolRequests : CallToolBegin(u, q)
  \/ \E r \in 1..MaxCalls : MigrateCheckUser(r)
  \/ \E r \in 1..MaxCalls : MigrateCheckUnknown(r)
  \/ \E r \in 1..MaxCalls : MigrateExec(r)
  \/ \E r \in 1..MaxCalls : ToolStep(r)
  \/ \E t \in TickerTools, tk \in Tickers, up \in Upstream : TickerTool(t, tk, up)
  \/ \E cf \in BOOLEAN, st \in QueryValues, cd \in QueryValues :
       RouteReject(CallbackRequest(cf, st, cd))

Spec == Init /\ [][Next]_vars

\* The authorization-code flow: registration, authorize, the callback with
\* every upstream answer, and the authorization_code grant.  The operations
\* left out (refresh, load_access_token, revoke_token) write neither the
\* pending map nor the code maps.
NextCode ==
  \/ \E d \in CodeJumps : Tick(d)
  \/ \E c \in ClientIds : RegisterClient(c, "m1")
  \/ \E c \in ClientIds : Authorize(c, DefaultParams({"r"}))
  \/ \E s \in StateIds : CallbackStart(s)
  \/ \E k \in cb : CallbackPostError(k)
  \/ \E k \in cb : CallbackNoIdToken(k)
  \/ \E k \in cb, tk \in IdTokens : CallbackPostOk(k, tk)
  \/ \E k \in cb : CallbackJwksError(k)
  \/ \E k \in cb, doc \in JwksDocs : CallbackJwksOk(k, doc)
  \/ \E c \in ClientIds, code \in CodeIds : TokenLoad(c, code)
  \/ \E r \in 1..MaxReq : TokenExchange(r)

SpecCode == Init /\ [][NextCode]_vars

\* One /token request at a time.
SerialRequests ==
  Cardinality({r \in DOMAIN treq : treq[r] # Idle})
    + Cardinality({r \in DOMAIN rreq : rreq[r] # Idle}) <= 1

\* The life of the tokens: one client, an upstream that answers with a
\* verifiable id_token for either subject, both grants one request at a
\* time, load_access_token and revoke_token, and clock steps around the
\* expiry of an access token; SerialTokens token strings are drawn at most.
NextTokens ==
  \/ \E d \in TokenJumps : Tick(d)
  \/ RegisterClient("c1", "m1")
  \/ Authorize("c1", DefaultParams({"r"}))
  \/ \E s \in StateIds : CallbackStart(s)
  \/ \E k \in cb, u \in Subjects : CallbackPostOk(k, GoodIdToken(u))
  \/ \E k \in cb, doc \in JwksDocs : CallbackJwksOk(k, doc)
  \/ \E code \in CodeIds : TokenLoad("c1", code) /\ SerialRequests'
  \/ \E r \in 1..MaxReq : TokenExchange(r) /\ nTok' <= SerialTokens
  \/ \E t \in 1..SerialTokens : RefreshLoad("c1", t) /\ SerialRequests'
  \/ \E r \in 1..MaxReq, sc \in RefreshScopeArgs :
       RefreshExchange(r, sc) /\ nTok' <= SerialTokens
  \/ \E t \in 1..SerialTokens : LoadAccessTokenCall(t)
  \/ \E t \in 1..SerialTokens : RevokeToken(t)

SpecTokens == Init /\ [][NextTokens]_vars

\* The end-to-end scenario: one flow at a time, run in order from the empty
\* provider.  The upstream answers the code exchange with an id_token that
\* verifies, the /token request comes from the client the code was minted
\* for while the code has not expired, and the access token is presented
\* before its expiry; the clock may advance between any two steps.
FlowIdle ==
  /\ pending = Empty /\ cb = {} /\ auth_codes = Empty
  /\ \A r \in DOMAIN treq : treq[r] = Idle

NextE2E ==
  \/ \E d \in Jumps : Tick(d)
  \/ \E c \in ClientIds : c \notin DOMAIN clients /\ RegisterClient(c, "m1")
  \/ \E c \in DOMAIN clients : FlowIdle /\ Authorize(c, DefaultParams({"r"}))
  \/ \E s \in DOMAIN pending : CallbackStart(s)
  \/ \E k \in cb, u \in Subjects : CallbackPostOk(k, GoodIdToken(u))
  \/ \E k \in cb, doc \in JwksDocs :
       k.pc = "jwks" /\ k.tok.kid \in doc.keys /\ CallbackJwksOk(k, doc)
  \/ \E code \in DOMAIN auth_codes :
       /\ \A r \in DOMAIN treq : treq[r] = Idle
       /\ now < auth_codes[code].expires_at
       /\ TokenLoad(auth_codes[code].client_id, code)
  \/ \E r \in 1..MaxReq : TokenExchange(r)
  \/ \E t \in DOMAIN access_tokens :
       /\ now < access_tokens[t].expires_at * SubSec
       /\ LoadAccessTokenCall(t)

SpecE2E == Init /\ [][NextE2E]_vars

\* Registration and lookup of clients, with the operations that read the
\* client map on an authorization request; a registration may carry a
\* client_id that is already registered.
NextClients ==
  \/ \E c \in ClientIds, m \in Metas : RegisterClient(c, m)
  \/ \E c \in ClientIds : GetClientCall(c)
  \/ \E c \in ClientIds, sc \in ParamScopes : Authorize(c, DefaultParams(sc))
  \/ \E s \in StateIds : CallbackStart(s)
  \/ \E k \in cb : CallbackPostError(k)
  \/ \E k \in cb : CallbackNoIdToken(k)

SpecClients == Init /\ [][NextClients]_vars

\* The resource server's verifier: bearer tokens of every kind, the JWKS
\* endpoint answering or failing, and clock steps around the cache TTL.
NextVerifier ==
  \/ \E d \in JwksJumps : Tick(d)
  \/ \E tk \in BearerTokens : VerifyStart(tk)
  \/ \E r \in 1..MaxVerify : VerifyJwksError(r)
  \/ \E r \in 1..MaxVerify, doc \in VerifierJwksDocs : VerifyJwksOk(r, doc)

SpecVerifier == Init /\ [][NextVerifier]_vars

\* The task-manager tools: calls by two subjects and by requests without a
\* subject, two at a time, and clock steps around the dedupe window.
NextTools ==
  \/ \E d \in TaskJumps : Tick(d)
  \/ \E u \in TaskUsers, q \in ToolRequests : CallToolBegin(u, q)
  \/ \E r \in 1..MaxCalls : MigrateCheckUser(r)
  \/ \E r \in 1..MaxCalls : MigrateCheckUnknown(r)
  \/ \E r \in 1..MaxCalls : MigrateExec(r)
  \/ \E r \in 1..MaxCalls : ToolStep(r)

SpecTools == Init /\ [][NextTools]_vars

\* No tool call is in progress.
NoCallInProgress == \A r \in DOMAIN calls : calls[r] = Idle

\* The tools called one after the other by two subjects and by requests
\* without a subject: every tool, on every row id.
IsolationRequests ==
  {q \in ToolRequests :
     /\ q.tool = "create-task" => (q.subject = "a" /\ q.key = NoKey)
     /\ q.tool = "list-tasks" => q.status = NullArg
     /\ q.tool = "update-task" => q.subject = "b"}

NextIsolation ==
  \/ \E d \in TaskJumps : Tick(d)
  \/ \E u \in TaskUsers, q \in IsolationRequests :
       NoCallInProgress /\ CallToolBegin(u, q)
  \/ \E r \in 1..MaxCalls : MigrateCheckUser(r)
  \/ \E r \in 1..MaxCalls : MigrateCheckUnknown(r)
  \/ \E r \in 1..MaxCalls : MigrateExec(r)
  \/ \E r \in 1..MaxCalls : ToolStep(r)

SpecIsolation == Init /\ [][NextIsolation]_vars

\* create_task called by two verified subjects, with and without an
\* idempotency key, two calls at a time; no row of subject 'unknown' exists,
\* so the migration checks run and the migration itself never does.
CreateRequests == {q \in ToolRequests : q.tool = "create-task"}

NextCreate ==
  \/ \E d \in TaskJumps : Tick(d)
  \/ \E u \in Subjects, q \in CreateRequests : CallToolBegin(u, q)
  \/ \E r \in 1..MaxCalls : MigrateCheckUser(r)
  \/ \E r \in 1..MaxCalls : MigrateCheckUnknown(r)
  \/ \E r \in 1..MaxCalls : CreateTaskDedupe(r)
  \/ \E r \in 1..MaxCalls : CreateTaskInsert(r)

SpecCreate == Init /\ [][NextCreate]_vars

\* The financial server: every ticker tool on every ticker string.  The
\* tools keep no state between calls, so one call from the initial state
\* shows every call.
NextFin ==
  \E t \in TickerTools, tk \in Tickers, up \in Upstream :
    fin = NoFin /\ TickerTool(t, tk, up)

SpecFin == Init /\ [][NextFin]_vars

\* The /auth/callback route: requests answered before the provider is
\* called, and requests that run complete_auth0_callback with every
\* upstream answer.
NextRoute ==
  \/ \E cf \in BOOLEAN, st \in QueryValues, cd \in QueryValues :
       RouteReject(CallbackRequest(cf, st, cd))
  \/ \E c \in ClientIds : RegisterClient(c, "m1")
  \/ \E c \in ClientIds, st \in {"", "xyz"} :
       Authorize(c, Params({"r"}, st, "ch1", Uri("https://a/cb", ""), TRUE, "none"))
  \/ \E s \in StateIds : CallbackStart(s)
  \/ \E k \in cb : CallbackPostError(k)
  \/ \E k \in cb : CallbackNoIdToken(k)
  \/ \E k \in cb, tk \in IdTokens : CallbackPostOk(k, tk)
  \/ \E k \in cb : CallbackJwksError(k)
  \/ \E k \in cb, doc \in JwksDocs : CallbackJwksOk(k, doc)

SpecRoute == Init /\ [][NextRoute]_vars

\* The requests of the redirect specification: between them they take
\* every value of every field.
RedirectParams ==
  {Params(NoScopes, "", "ch1", Uri("https://a/cb", ""), TRUE, "none"),
   Params({"r"}, "xyz", "ch2", Uri("https://a/cb", "x=1"), FALSE, "https://a/mcp"),
   Params({}, "xyz", "ch1", Uri("https://a/cb", ""), FALSE, "none"),
   Params({"r"}, "", "ch2", Uri("https://a/cb", "x=1"), TRUE, "https://a/mcp")}

\* Authorization requests with varied params, the callbacks that complete
\* them, and the clock.
NextRedirect ==
  \/ \E j \in CodeJumps : Tick(j)
  \/ \E c \in ClientIds : RegisterClient(c, "m1")
  \/ \E c \in ClientIds, ps \in RedirectParams : Authorize(c, ps)
  \/ \E s \in StateIds : CallbackStart(s)
  \/ \E k \in cb : CallbackPostError(k)
  \/ \E k \in cb : CallbackNoIdToken(k)
  \/ \E k \in cb, tk \in IdTokens : CallbackPostOk(k, tk)
  \/ \E k \in cb : CallbackJwksError(k)
  \/ \E k \in cb, doc \in JwksDocs : CallbackJwksOk(k, doc)

SpecRedirect == Init /\ [][NextRedirect]_vars

\* Authorization requests with varied params, before and after codes and
\* tokens have been issued: an upstream that answers with a verifiable
\* id_token, and the authorization_code grant.
NextAuthorize ==
  \/ \E c \in ClientIds : RegisterClient(c, "m1")
  \/ \E c \in ClientIds, ps \in RedirectParams : Authorize(c, ps)
  \/ \E s \in StateIds : CallbackStart(s)
  \/ \E k \in cb, u \in Subjects : CallbackPostOk(k, GoodIdToken(u))
  \/ \E k \in cb, doc \in JwksDocs : CallbackJwksOk(k, doc)
  \/ \E c \in ClientIds, code \in CodeIds : TokenLoad(c, code)
  \/ \E r \in 1..MaxReq : TokenExchange(r)

SpecAuthorize == Init /\ [][NextAuthorize]_vars

\* The two JWKS caches: callbacks and verifications whose tokens pass the
\* header check, a JWKS endpoint that answers with a key list or with {},
\* or fails, and clock steps around the TTL.
NextJwks ==
  \/ \E d \in JwksJumps : Tick(d)
  \/ RegisterClient("c1", "m1")
  \/ Authorize("c1", DefaultParams({"r"}))
  \/ \E s \in StateIds : CallbackStart(s)
  \/ \E k \in cb : CallbackPostOk(k, GoodIdToken("u1"))
  \/ \E k \in cb : CallbackJwksError(k)
  \/ \E k \in cb, doc \in JwksAnswers : CallbackJwksOk(k, doc)
  \/ VerifyStart(GoodIdToken("u1"))
  \/ \E r \in 1..MaxVerify : VerifyJwksError(r)
  \/ \E r \in 1..MaxVerify, doc \in JwksAnswers : VerifyJwksOk(r, doc)

SpecJwks == Init /\ [][NextJwks]_vars

\* Upstream failures: one client, an upstream whose token endpoint and JWKS
\* endpoint answer or fail, the authorization_code grant, and clock steps
\* around the TTL of the JWKS cache.
NextFailure ==
  \/ \E d \in JwksJumps : Tick(d)
  \/ RegisterClient("c1", "m1")
  \/ Authorize("c1", DefaultParams({"r"}))
  \/ \E s \in StateIds : CallbackStart(s)
  \/ \E k \in cb : CallbackPostError(k)
  \/ \E k \in cb : CallbackPostOk(k, GoodIdToken("u1"))
  \/ \E k \in cb : CallbackJwksError(k)
  \/ \E k \in cb, doc \in JwksDocs : CallbackJwksOk(k, doc)
  \/ \E code \in CodeIds : TokenLoad("c1", code)
  \/ \E r \in 1..MaxReq : TokenExchange(r)

SpecFailure == Init /\ [][NextFailure]_vars

\* Scope derivation: one call of _scopes_from_claims per claims object.
NextScopes ==
  \E claims \in ClaimsObjects : scoped = NoScoped /\ ScopesCall(claims)

SpecScopes == Init /\ [][NextScopes]_vars

\* The refresh race: one authorization-code flow, then refresh_token
\* requests that may overlap: each is a load followed by an exchange, and
\* the handler awaits between the two.
NextRefresh ==
  \/ RegisterClient("c1", "m1")
  \/ Authorize("c1", DefaultParams({"r"}))
  \/ \E s \in StateIds : CallbackStart(s)
  \/ \E k \in cb : CallbackPostOk(k, GoodIdToken("u1"))
  \/ \E k \in cb, doc \in JwksDocs : CallbackJwksOk(k, doc)
  \/ \E code \in CodeIds : TokenLoad("c1", code)
  \/ \E r \in 1..MaxReq : TokenExchange(r)
  \/ \E t \in TokenIds : RefreshLoad("c1", t)
  \/ \E r \in 1..MaxReq : RefreshExchange(r, {})

SpecRefresh == Init /\ [][NextRefresh]_vars

\* Expiry: one client, an upstream that answers or fails, the
\* authorization_code grant, load_access_token and revoke_token, and clock
\* steps past the expiry of a code and of an access token.
NextExpiry ==
  \/ \E d \in Jumps : Tick(d)
  \/ RegisterClient("c1", "m1")
  \/ Authorize("c1", DefaultParams({"r"}))
  \/ \E s \in StateIds : CallbackStart(s)
  \/ \E k \in cb : CallbackPostError(k)
  \/ \E k \in cb : CallbackPostOk(k, GoodIdToken("u1"))
  \/ \E k \in cb, doc \in JwksDocs : CallbackJwksOk(k, doc)
  \/ \E code \in CodeIds : TokenLoad("c1", code)
  \/ \E r \in 1..MaxReq : TokenExchange(r)
  \/ \E t \in 1..SerialTokens : LoadAccessTokenCall(t)
  \/ \E t \in 1..SerialTokens : RevokeToken(t)

SpecExpiry == Init /\ [][NextExpiry]_vars

\* The shopping cart: calls with every action and every list of items.
NextCart ==
  \E action \in CartActions, items \in ItemLists : ShoppingCart(action, items)

SpecCart == Init /\ [][NextCart]_vars

\* ================================================================ claims
\* The codes whose exchange has succeeded, and the token strings a code
\* exchange has issued for a code.
TokensOfCode(code) ==
  {t \in DOMAIN lineage : lineage[t].code = code /\ lineage[t].from = 0}
Redeemed == {code \in DOMAIN minted : TokensOfCode(code) # {}}

\* An /token request in slot r ends in this step.
ExchangeStep(r) == treq[r] # Idle /\ treq'[r] = Idle

\* A redeemed code is never loaded again; an exchange of it fails.
C1_State ==
  \A code \in Redeemed :
    /\ \A c \in ClientIds : LoadAuthorizationCode(c, code) = None
    /\ Cardinality(TokensOfCode(code)) = 2
C1_Step ==
  \A r \in DOMAIN treq :
    (ExchangeStep(r) /\ treq[r].obj.code \in Redeemed) =>
      /\ last' = Call("exchange_authorization_code", treq[r].obj.code, "invalid_grant")
      /\ UNCHANGED <<access_tokens, refresh_tokens, nTok, lineage>>

\* C1: once exchange_authorization_code has succeeded for a code, in every
\* later state load_authorization_code returns None for it for every
\* client, a further exchange_authorization_code for it raises
\* invalid_grant, and no second access/refresh pair is issued for it.
C1_ReplayFails == []C1_State /\ [][C1_Step]_vars

\* C1 witness: a load of a redeemed code has just returned None.
C1_Witness ==
  \E code \in Redeemed :
    last = Call("load_authorization_code", code, "none")

\* C2: a state id is consumed at most once: at most one call with it gets
\* past the pending lookup, a consumed state id is never pending again (so
\* every other call with it raises invalid_grant), and at most one
\* authorization code is minted for it.
C2_StateConsumedOnce ==
  \A s \in DOMAIN passed :
    /\ passed[s] <= 1
    /\ s \notin DOMAIN pending
    /\ Cardinality({code \in DOMAIN minted : minted[code].state = s}) <= 1
    /\ (\E k \in cb : k.state = s) =>
         {code \in DOMAIN minted : minted[code].state = s} = {}

\* C2 witness: the first call with the state id minted a code, and a second
\* call with the same state id has just been rejected.
C2_Witness ==
  \E code \in DOMAIN minted :
    last = Call("callback", minted[code].state, "invalid_grant")

\* The two maps share their keys; how a key enters and leaves them.
C7_State == DOMAIN auth_codes = DOMAIN auth_code_subject
C7_Step ==
  \/ DOMAIN auth_codes' = DOMAIN auth_codes
  \/ /\ nCode' = nCode + 1
     /\ DOMAIN auth_codes' = DOMAIN auth_codes \cup {nCode'}
     /\ DOMAIN auth_code_subject' = DOMAIN auth_code_subject \cup {nCode'}
     /\ last' = Call("callback", minted'[nCode'].state, "ok")
  \/ \E code \in DOMAIN auth_codes :
       /\ DOMAIN auth_codes' = DOMAIN auth_codes \ {code}
       /\ DOMAIN auth_code_subject' = DOMAIN auth_code_subject \ {code}
       /\ code \notin Redeemed
       /\ code \in Redeemed'

\* C7: the code map and the subject side map have the same keys in every
\* state; a key enters both in one callback step and leaves both in one
\* successful exchange step.
C7_CodeAndSubjectPaired == []C7_State /\ [][C7_Step]_vars

\* C7 witness: one code has been redeemed and removed while another is
\* still in both maps.
C7_Witness ==
  /\ Redeemed # {}
  /\ DOMAIN auth_codes # {}
  /\ DOMAIN auth_codes = DOMAIN auth_code_subject

\* One pair per code; the fate of a request that shares its code.
C8_State ==
  \A code \in DOMAIN minted : Cardinality(TokensOfCode(code)) <= 2
C8_Step ==
  \A r \in DOMAIN treq, q \in DOMAIN treq :
    (r # q /\ ExchangeStep(r) /\ treq[q] # Idle
       /\ treq[q].obj.code = treq[r].obj.code) =>
      \/ /\ last'.res = "ok"
         /\ ExchangeSubject(treq[q].client, treq[q].obj)' = NoSubject
      \/ /\ last'.res = "invalid_grant"
         /\ treq[r].obj.code \in Redeemed

\* C8: of two /token requests that loaded the same code before either
\* exchanged it, at most one receives a token pair; the other fails with
\* invalid_grant.
C8_OneRedeemerWins == []C8_State /\ [][C8_Step]_vars

\* C8 witness: the second of two concurrent redeemers has just failed.
C8_Witness ==
  \E code \in Redeemed :
    last = Call("exchange_authorization_code", code, "invalid_grant")

\* The load gate, and what a refused load and an exchange may change.
CodeUsable(c, code) ==
  /\ code \in DOMAIN auth_codes
  /\ auth_codes[code].client_id = c
  /\ now <= auth_codes[code].expires_at
C9_State ==
  \A c \in ClientIds, code \in CodeIds :
    ~CodeUsable(c, code) => LoadAuthorizationCode(c, code) = None
C9_Step ==
  /\ \A r \in DOMAIN treq :
       (treq[r] = Idle /\ treq'[r] # Idle) =>
         /\ CodeUsable(treq'[r].client, treq'[r].obj.code)
         /\ treq'[r].obj = auth_codes[treq'[r].obj.code]
         /\ UNCHANGED <<auth_codes, auth_code_subject, access_tokens,
                        refresh_tokens, nTok>>
  /\ (last' # last /\ last'.op = "load_authorization_code"
        /\ last'.res = "none") =>
       UNCHANGED <<auth_codes, auth_code_subject, access_tokens,
                   refresh_tokens, nTok, treq>>
  /\ \A t \in DOMAIN lineage' \ DOMAIN lineage :
       lineage'[t].from = 0 =>
         \E r \in DOMAIN treq :
           ExchangeStep(r) /\ treq[r].obj.code = lineage'[t].code

\* C9: a /token request by client X for code C gets past
\* load_authorization_code only if C is in the store, belongs to X and the
\* clock has not passed its expiry; in every other case the load returns
\* None, mints nothing and leaves the code store as it was; a code exchange
\* mints tokens only for a request that got past the load.
C9_OwnClientBeforeExpiry == []C9_State /\ [][C9_Step]_vars

\* C9 witness: a code that is in the store and not yet expired has just
\* been refused to a client it does not belong to, after another request
\* was served.
C9_Witness ==
  \E code \in DOMAIN auth_codes :
    /\ now <= auth_codes[code].expires_at
    /\ last = Call("load_authorization_code", code, "none")
    /\ Redeemed # {}

\* A callback step for a state id that is neither pending nor in flight.
C10_Step ==
  \A s \in StateIds :
    (/\ s \notin DOMAIN pending
     /\ ~\E k \in cb : k.state = s
     /\ last' # last
     /\ last'.op = "callback" /\ last'.arg = s) =>
      /\ last'.res = "invalid_grant"
      /\ UNCHANGED <<pending, auth_codes, auth_code_subject, access_tokens,
                     refresh_tokens, jwks_cache, jwks_fetched_at, cb, nCode,
                     nTok, minted>>

\* C10: a callback whose state is not in the pending map (and not held by
\* a call in flight) is rejected with invalid_grant without an upstream
\* POST or a JWKS fetch, and leaves the pending map, the code maps, the
\* token maps and the JWKS cache unchanged.
C10_UnknownStateRejected == [][C10_Step]_vars

\* C10 witness: a callback with a state id that authorize never issued has
\* just been rejected.
C10_Witness ==
  /\ last.op = "callback" /\ last.res = "invalid_grant"
  /\ last.arg > nState

\* ---------------------------------------------------------------- tokens
\* The refresh tokens a refresh exchange has consumed, and the token
\* strings a refresh exchange has issued.
Rotated == {lineage[t].from : t \in DOMAIN lineage} \ {0}
FromRefresh == {t \in DOMAIN lineage : lineage[t].from # 0}

\* A refresh_token request in slot r ends in this step.
RefreshStep(r) == rreq[r] # Idle /\ rreq'[r] = Idle

\* What a refresh exchange does to the old token and the new pair.
C3_Step ==
  \A r \in DOMAIN rreq :
    RefreshStep(r) =>
      /\ last' = Call("exchange_refresh_token", rreq[r].obj.token, "ok")
      /\ nTok' = nTok + 2
      /\ rreq[r].obj.token \notin DOMAIN refresh_tokens'
      /\ nTok' \in DOMAIN refresh_tokens'
      /\ refresh_tokens'[nTok'].client_id = rreq[r].obj.client_id
      /\ (nTok' - 1) \in DOMAIN access_tokens'
      /\ ~Expired(access_tokens'[nTok' - 1], now')
      /\ access_tokens'[nTok' - 1].client_id = rreq[r].obj.client_id

\* An access token leaves the map only in a revoke_token call on it.
C3_OnlyRevokeRemoves ==
  \A t \in DOMAIN access_tokens :
    t \notin DOMAIN access_tokens' => last' = Call("revoke_token", t, "ok")

\* C3 as stated: after a refresh exchange of R that returned (A', R'), R is
\* never loaded again, and A' is loaded at every later clock value before
\* its expiry.
C3_Original ==
  /\ \A R \in Rotated : LoadRefreshToken("c1", R) = None
  /\ \A t \in FromRefresh :
       (lineage[t].exp # 0 /\ now < lineage[t].exp * SubSec)
         => LoadAccessTokenAt(t, now) # None

\* The old refresh token is gone; the new access token loads while present.
C3_State ==
  /\ \A R \in Rotated : LoadRefreshToken("c1", R) = None
  /\ \A t \in FromRefresh \cap DOMAIN access_tokens :
       now < access_tokens[t].expires_at * SubSec
         => LoadAccessTokenAt(t, now) = access_tokens[t]

\* C3 (amended): after a refresh exchange of R that returned (A', R'),
\* load_refresh_token(R) returns None in every later state, right after the
\* exchange load_refresh_token(R') returns the new record and
\* load_access_token(A') the new access token, both for the subject of R;
\* A' stays in the map until revoke_token(A') is called, and while it is
\* there it is loaded at every clock value before its expiry.
C3_RefreshRotates == []C3_State /\ [][C3_Step /\ C3_OnlyRevokeRemoves]_vars

\* C3 witness: a refresh exchange has happened, the old refresh token has
\* just been refused, and the new pair is in the maps.
C3_Witness ==
  \E R \in Rotated :
    /\ last = Call("load_refresh_token", R, "none")
    /\ \E t \in FromRefresh \cap DOMAIN access_tokens :
         lineage[t].from = R /\ (t + 1) \in DOMAIN refresh_tokens

\* C4 as stated: a minted access token T with recorded expiry E is
\* returned at every clock value before E and refused at every clock value
\* from E on; an unknown token string is refused.
C4_Original ==
  /\ \A tok \in DOMAIN access_tokens :
       LET at == access_tokens[tok] IN
         /\ now < at.expires_at * SubSec => LoadAccessTokenAt(tok, now) = at
         /\ now >= at.expires_at * SubSec => LoadAccessTokenAt(tok, now) = None
  /\ \A tok \in TokenIds \ DOMAIN access_tokens :
       LoadAccessTokenAt(tok, now) = None

\* The entries of a token map carry the subject of their code.
C5_Bound(m) ==
  \A t \in DOMAIN m :
    /\ m[t].token = t
    /\ t \in DOMAIN lineage
    /\ lineage[t].code \in DOMAIN minted
    /\ m[t].client_id = minted[lineage[t].code].subject
    /\ m[t].client_id \in Subjects
    /\ m[t].client_id \notin ClientIds

\* C5: every access token and every refresh token in the maps carries the
\* subject that was verified in the callback that minted the code it
\* derives from, directly or through refresh exchanges; it never carries
\* an MCP client's id.
C5_SubjectBinding == C5_Bound(access_tokens) /\ C5_Bound(refresh_tokens)

\* C5 witness: two codes were minted for different subjects and a token
\* obtained through a refresh exchange is in the access-token map.
C5_Witness ==
  /\ \E c1 \in DOMAIN minted, c2 \in DOMAIN minted :
       minted[c1].subject # minted[c2].subject
  /\ FromRefresh \cap DOMAIN access_tokens # {}

\* C6: in the end-to-end scenario every step succeeds: the callback mints a
\* code whose subject entry is the subject U the id_token verified for, the
\* load returns that code, the exchange issues a token pair, and
\* load_access_token of the issued access token returns an AccessToken
\* with client_id = U.
C6_EndToEnd ==
  /\ last.res \in {"ok", "await_post", "await_jwks"}
  /\ (last.op = "callback" /\ last.res = "ok") =>
       \E code \in DOMAIN auth_codes :
         /\ minted[code].state = last.arg
         /\ auth_code_subject[code] = minted[code].subject
         /\ auth_codes[code].client_id = minted[code].client
  /\ last.op = "load_authorization_code" =>
       \E r \in DOMAIN treq :
         treq[r] # Idle /\ treq[r].obj = auth_codes[last.arg]
  /\ last.op = "exchange_authorization_code" =>
       \E t \in TokensOfCode(last.arg) :
         /\ t \in DOMAIN access_tokens
         /\ (t + 1) \in DOMAIN refresh_tokens
         /\ access_tokens[t].client_id = minted[last.arg].subject
  /\ last.op = "load_access_token" =>
       /\ last.arg \in DOMAIN access_tokens
       /\ access_tokens[last.arg].client_id
            = minted[lineage[last.arg].code].subject

\* C6 witness: the flow has run to its end for subject u2: the access token
\* issued for the code has just been loaded.
C6_Witness ==
  /\ last.op = "load_access_token" /\ last.res = "ok"
  /\ last.arg \in DOMAIN access_tokens
  /\ access_tokens[last.arg].client_id = "u2"
  /\ lineage[last.arg].from = 0

\* ------------------------------------------------------- callback failures
\* The outcomes with which a complete_auth0_callback call can end in failure.
CallbackFailures == {"invalid_grant", "http_error", "jwt_error"}

\* C11 as stated: every complete_auth0_callback call that ends in failure
\* ends in TokenError(invalid_grant).
C11_Original ==
  (last.op = "callback" /\ last.res \in CallbackFailures) =>
    last.res = "invalid_grant"

\* ---------------------------------------------------------------- clients
\* C12 as stated: once a descriptor is stored under a client_id, get_client
\* returns that descriptor in every later state, whatever operation follows.
C12_Original ==
  [][\A c \in DOMAIN clients : GetClient(c)' = GetClient(c)]_vars

\* ---------------------------------------------------------------- verifier
\* Every check of verify_token passes for token tk against the JWKS answer
\* (None: the header was refused before the JWKS was needed, or the GET
\* failed).
ChecksPass(tk, jwks) ==
  /\ tk.alg = "RS256" /\ tk.kid # NoKid
  /\ "keys" \in DOMAIN jwks /\ tk.kid \in jwks.keys
  /\ tk.sig /\ tk.aud /\ tk.iss
  /\ tk.exp = "valid"
  /\ tk.sub # NoSubject /\ tk.sub # ""

\* C13: verify_token never raises; it returns None whenever a check fails
\* (header, kid lookup, signature, aud, iss, exp, sub, or the JWKS fetch)
\* and an AccessToken only when every check passes, and that token's
\* client_id is the sub claim.
C13_FailsClosed ==
  v_out.out.kind # "never" =>
    /\ v_out.out.kind \in {"none", "token"}
    /\ v_out.out.kind = "token" <=> ChecksPass(v_out.tok, v_out.jwks)
    /\ v_out.out.kind = "token" =>
         /\ v_out.out.token = v_out.tok
         /\ v_out.out.client_id = v_out.tok.sub

\* C13 witness: a token with a valid signature under a key of the fetched
\* JWKS but the wrong audience has just been refused.
C13_Witness ==
  /\ v_out.out.kind = "none"
  /\ v_out.tok # None
  /\ v_out.tok.sig /\ ~v_out.tok.aud
  /\ "keys" \in DOMAIN v_out.jwks
  /\ v_out.tok.kid \in v_out.jwks.keys

\* ---------------------------------------------------------------- tools
\* The rows of a table that a step changes or removes.
Touched(tab, tabNext) ==
  {tab[i] : i \in {j \in DOMAIN tab : j \notin DOMAIN tabNext \/ tabNext[j] # tab[j]}}

\* C14 as stated: every step of a tool call made for subject U changes and
\* removes only rows whose user_subject is U and returns only such rows; a
\* call that names another subject's row id reports not found.
C14_Step ==
  /\ \A x \in Touched(tasks, tasks') \cup Touched(notifs, notifs') :
       x.user_subject = t_out'.by
  /\ \A x \in t_out'.rows : x.user_subject = t_out'.by
  /\ \A r \in DOMAIN calls :
       (/\ calls[r] # Idle /\ calls'[r] = Idle
        /\ calls[r].req.tool \in {"get-task", "update-task", "delete-task"}
        /\ calls[r].req.id \in DOMAIN tasks
        /\ tasks[calls[r].req.id].user_subject # calls[r].user)
         => t_out'.err /\ tasks' = tasks
C14_Original == [][C14_Step]_vars

\* The task rows of subject u under idempotency key k.
Keyed(tab, u, k) == {x \in RowsOf(tab, u) : x.idempotency_key = k}

\* At most one row per subject and key; a create_task call with a key
\* returns, without error, the one row of its subject and key: the row
\* that was there before the call, or else a new row with the call's
\* field values; and no step changes or removes a row.
C15_State ==
  \A u \in TaskUsers, k \in {"k1"} : Cardinality(Keyed(tasks, u, k)) <= 1
C15_Step ==
  /\ \A i \in DOMAIN tasks : i \in DOMAIN tasks' /\ tasks'[i] = tasks[i]
  /\ \A r \in DOMAIN calls :
       (/\ calls[r] # Idle /\ calls'[r] = Idle
        /\ calls[r].req.tool = "create-task" /\ calls[r].req.key # NoKey)
         => /\ ~t_out'.err
            /\ t_out'.rows = Keyed(tasks', calls[r].user, calls[r].req.key)
            /\ Cardinality(t_out'.rows) = 1
            /\ IF Keyed(tasks, calls[r].user, calls[r].req.key) # {}
                 THEN t_out'.rows = Keyed(tasks, calls[r].user, calls[r].req.key)
                 ELSE \A x \in t_out'.rows :
                        /\ x.subject = calls[r].req.subject
                        /\ x.status = calls[r].req.status

\* C15: for every subject U and non-empty idempotency key K, create_task
\* calls with (U, K), in any order and interleaving, leave exactly one task
\* row for (U, K); every such call returns that row without error, and the
\* row keeps the field values of the first insert.
C15_IdempotentPerKey == []C15_State /\ [][C15_Step]_vars

\* C15 witness: a create_task call with a key has just returned a row that
\* an earlier call inserted, while a second subject holds a row under the
\* same key.
C15_Witness ==
  /\ t_out.done /\ t_out.tool = "create-task"
  /\ \E x \in t_out.rows :
       /\ x.idempotency_key # NoKey
       /\ x.created_at < now
       /\ \E y \in RowsOf(tasks, "u2") : y.idempotency_key = x.idempotency_key
       /\ x.user_subject = "u1"

\* ---------------------------------------------------------------- tickers
\* Empty or whitespace-only.
IsBlank(str) == \A i \in DOMAIN str : str[i] \in Whitespace

\* C16: for every ticker that is empty or whitespace-only,
\* get_stock_summary returns exactly "Ticker symbol is required.", every
\* other ticker tool returns its empty value ([] or {}), and no
\* yfinance.Ticker is constructed.
C16_BlankTickerRejected ==
  (fin.tool # "none" /\ IsBlank(fin.ticker)) =>
    /\ fin.yf = 0
    /\ fin.tool = "get_stock_summary" =>
         fin.out = [kind |-> "text", text |-> "Ticker symbol is required."]
    /\ fin.tool \in ListTools => fin.out = [kind |-> "list", items |-> "none"]
    /\ fin.tool \in DictTools => fin.out = [kind |-> "dict", items |-> "none"]

\* C16 witness: get_sec_filings has just returned [] for a ticker of a
\* space and a tab.
C16_Witness ==
  /\ fin.tool = "get_sec_filings"
  /\ fin.ticker = <<" ", "\t">>
  /\ fin.out = EmptyList
  /\ fin.yf = 0

\* ---------------------------------------------------------------- route
\* A request answered without the provider gets a JSON 400 and leaves the
\* provider as it was; a request that reached the provider gets a 302 to
\* the returned URL when the call returned and a JSON 400 when it raised.
C17_State ==
  /\ route.status \in {0, 400}
  /\ ~route.called
  /\ CallbackEnded =>
       /\ LastResponse.status \in {302, 400}
       /\ LastResponse.status = 302 <=> last.res = "ok"
       /\ last.res = "ok" => LastResponse.location = minted[nCode].url
C17_Step ==
  route' # route =>
    /\ route'.status = 400
    /\ ~route'.req.configured \/ Missing(route'.req.state)
         \/ Missing(route'.req.code)
    /\ UNCHANGED <<store, cb, nState, nCode, minted, passed, last>>

\* C17: the /auth/callback route never propagates an exception; it answers
\* 302, to the URL complete_auth0_callback returned, exactly when a provider
\* is configured, state and code are present and the provider call
\* returns; in every other case it answers a JSON 400, and the provider is
\* not called when state or code is missing.
C17_RouteAnswers == []C17_State /\ [][C17_Step]_vars

\* C17 witness: a request without a state has been answered 400, and a
\* provider call that raised an exception other than TokenError has just
\* ended.
C17_Witness ==
  /\ route.status = 400 /\ route.req.configured /\ route.req.state = "absent"
  /\ CallbackEnded /\ last.res = "jwt_error"
  /\ LastResponse.status = 400

\* ---------------------------------------------------------------- minted code
\* A step in which complete_auth0_callback mints a code.
Mints == nCode' = nCode + 1

\* The minted code, what the authorize call of its state id stored, and
\* the URL the callback returned.
C18_Fields(scopesOf(_)) ==
  Mints =>
    /\ minted'[nCode'].state \in DOMAIN authorized
    /\ auth_codes'[nCode'].client_id
         = authorized[minted'[nCode'].state].client_id
    /\ auth_codes'[nCode'].scopes
         = scopesOf(authorized[minted'[nCode'].state].params.scopes)
    /\ auth_codes'[nCode'].redirect_uri
         = authorized[minted'[nCode'].state].params.redirect_uri
    /\ auth_codes'[nCode'].redirect_uri_provided_explicitly
         = authorized[minted'[nCode'].state].params.redirect_uri_provided_explicitly
    /\ auth_codes'[nCode'].code_challenge
         = authorized[minted'[nCode'].state].params.code_challenge
    /\ auth_codes'[nCode'].resource
         = authorized[minted'[nCode'].state].params.resource
    /\ auth_codes'[nCode'].expires_at = now + CodeTTL * SubSec
    /\ minted'[nCode'].url.uri
         = authorized[minted'[nCode'].state].params.redirect_uri
    /\ minted'[nCode'].url.query[1] = <<"code", nCode'>>
    /\ IF authorized[minted'[nCode'].state].params.state # ""
         THEN /\ Len(minted'[nCode'].url.query) = 2
              /\ minted'[nCode'].url.query[2]
                   = <<"state", authorized[minted'[nCode'].state].params.state>>
         ELSE Len(minted'[nCode'].url.query) = 1

AsStored(scopes) == scopes
AsList(scopes) == IF scopes = NoScopes THEN {} ELSE scopes

C18_NoScopesMinted ==
  \E code \in DOMAIN minted :
    authorized[minted[code].state].params.scopes = NoScopes

\* ---------------------------------------------------------------- authorize
\* A step of an authorize call: a state id is drawn.
Authorizes == nState' # nState

\* The state parameter of a URL's query (0: none).
StateParam(url) ==
  IF \E i \in DOMAIN url.query : url.query[i][1] = "state"
    THEN url.query[CHOOSE i \in DOMAIN url.query : url.query[i][1] = "state"][2]
    ELSE 0

C19_Step ==
  Authorizes =>
    /\ nState' \notin DOMAIN pending
    /\ DOMAIN pending' = DOMAIN pending \cup {nState'}
    /\ \A s \in DOMAIN pending : pending'[s] = pending[s]
    /\ pending'[nState'].client_id = authorized'[nState'].client_id
    /\ pending'[nState'].params = authorized'[nState'].params
    /\ authorized'[nState'].url.base = "https://auth0/authorize"
    /\ StateParam(authorized'[nState'].url) = nState'
    /\ UNCHANGED <<clients, auth_codes, auth_code_subject, access_tokens,
                   refresh_tokens, jwks_cache, jwks_fetched_at>>

\* C19: each authorize call adds exactly one entry to the pending map,
\* keyed by a state id not previously present and holding the caller's
\* client_id and params, returns an upstream /authorize URL whose state
\* parameter is that id, and leaves the client map, the authorization-code
\* map, the subject side-map, the access-token map, the refresh-token map
\* and the JWKS cache unchanged.
C19_AuthorizeFrame == [][C19_Step]_vars

\* C19 witness: an authorize call has just returned, its entry is pending,
\* and clients, access and refresh tokens and a JWKS are stored.
C19_Witness ==
  /\ last.op = "authorize"
  /\ nState \in DOMAIN pending
  /\ pending[nState].params.scopes = NoScopes
  /\ DOMAIN clients # {}
  /\ DOMAIN access_tokens # {} /\ DOMAIN refresh_tokens # {}
  /\ jwks_cache # None

\* ---------------------------------------------------------------- JWKS caches
\* The copy held by a cache attribute is at least TTL seconds old at t.
TooOld(fetched_at, t) == t - fetched_at >= JwksTTL * SubSec

\* Readings of "no JWKS is cached": the attribute is None; the attribute
\* is None or holds the empty object.
IsNone(doc) == doc = None
IsFalsy(doc) == ~Truthy(doc)

\* _get_auth0_jwks, called by every callback that leaves its POST in this
\* specification: the GET is issued exactly when nothing is cached or the
\* copy is too old, and otherwise the cache keeps its value; a GET that
\* succeeds leaves the document the call goes on with in the cache, under
\* the clock value read when the call began.
C20_ProviderStep(Absent(_)) ==
  \A k \in cb :
    /\ (k.pc = "post" /\ k \notin cb') =>
         /\ (\E j \in cb' : j.state = k.state /\ j.pc = "jwks")
              <=> (Absent(jwks_cache) \/ TooOld(jwks_fetched_at, now))
         /\ \A j \in cb' : (j.state = k.state /\ j.pc = "jwks") => j.now0 = now
         /\ UNCHANGED <<jwks_cache, jwks_fetched_at>>
    /\ (k.pc = "jwks" /\ k \notin cb') =>
         IF last'.res = "http_error"
           THEN UNCHANGED <<jwks_cache, jwks_fetched_at>>
           ELSE /\ jwks_cache' \in JwksAnswers
                /\ last'.res = VerifyWithJwks(k.tok, jwks_cache')
                /\ jwks_fetched_at' = k.now0

\* Auth0TokenVerifier._get_jwks, called by every verify_token call of this
\* specification: the same, for the verifier's cache.
C20_VerifierStep ==
  /\ \A r \in DOMAIN vreq :
       (vreq[r] = Idle /\ vreq'[r] # Idle) =>
         /\ v_cache = None \/ TooOld(v_cache.fetched_at, now)
         /\ vreq'[r].now0 = now
         /\ v_cache' = v_cache
  /\ (vreq' = vreq /\ v_out' # v_out) =>
       /\ v_cache # None /\ ~TooOld(v_cache.fetched_at, now)
       /\ v_out'.jwks = v_cache.jwks
       /\ v_cache' = v_cache
  /\ \A r \in DOMAIN vreq :
       (vreq[r] # Idle /\ vreq'[r] = Idle) =>
         IF v_out'.jwks = None
           THEN v_cache' = v_cache
           ELSE v_cache' = JwksCache(v_out'.jwks, vreq[r].now0)

\* C20, as stated: either cache is refetched exactly when no JWKS is cached
\* or the cached copy is at least TTL seconds old; a younger copy is
\* returned with no network call and the cache is unchanged; after a
\* successful fetch the cache holds the fetched document stamped with the
\* clock value read at the start of the call.
C20_Original == [][C20_ProviderStep(IsNone) /\ C20_VerifierStep]_vars

\* C20, amended: as stated for the verifier; the provider also refetches
\* when the cached document is the empty object, however young it is.
C20_JwksTtl == [][C20_ProviderStep(IsFalsy) /\ C20_VerifierStep]_vars

\* C20 witness: both caches hold a key list fetched at time 0, the clock
\* stands one tick short of the TTL, and a callback and a verification
\* have just been served from the caches.
C20_Witness ==
  /\ jwks_cache \in JwksDocs /\ jwks_fetched_at = 0
  /\ v_cache # None /\ v_cache.jwks \in JwksDocs /\ v_cache.fetched_at = 0
  /\ now = JwksTTL * SubSec - 1
  /\ nCode = 2 /\ cb = {}
  /\ v_out.out.kind = "token" /\ \A r \in DOMAIN vreq : vreq[r] = Idle

\* The provider's cache holds the empty object and a callback is fetching
\* the JWKS again before the TTL has run out.
C20_EmptyRefetched ==
  /\ jwks_cache = EmptyJson
  /\ \E k \in cb : k.pc = "jwks" /\ ~TooOld(jwks_fetched_at, k.now0)

\* ---------------------------------------------------------------- upstream failures
\* A step in which call k of complete_auth0_callback ends because its
\* upstream request failed.
FailsUpstream(k) ==
  /\ k \in cb /\ k \notin cb'
  /\ last'.op = "callback" /\ last'.res = "http_error"

C21_Step ==
  \A k \in cb :
    FailsUpstream(k) =>
      /\ last'.arg = k.state
      /\ cb' = cb \ {k}
      /\ UNCHANGED <<auth_codes, auth_code_subject, nCode, minted>>
      /\ UNCHANGED <<access_tokens, refresh_tokens, nTok>>
      /\ UNCHANGED <<jwks_cache, jwks_fetched_at>>

\* A call that failed upstream consumed its state id, and nothing runs for
\* that state id afterwards.
C21_State ==
  (last.op = "callback" /\ last.res = "http_error") =>
    /\ last.arg \notin DOMAIN pending
    /\ \A k \in cb : k.state # last.arg
    /\ \A code \in DOMAIN minted : minted[code].state # last.arg

\* C21: when the JWKS fetch or the upstream code exchange fails during
\* complete_auth0_callback, that call raises, no authorization code or
\* subject mapping is created, no token is minted, the JWKS cache and its
\* timestamp keep their previous values, and the call is not retried.
C21_FailsOnlyRequest == []C21_State /\ [][C21_Step]_vars

\* C21 witness: a callback has just failed upstream while a code with its
\* subject, tokens, and a JWKS copy that has grown too old are stored.
C21_Witness ==
  /\ last.op = "callback" /\ last.res = "http_error"
  /\ jwks_cache \in JwksDocs
  /\ now - jwks_fetched_at >= JwksTTL * SubSec
  /\ DOMAIN access_tokens # {}

\* ---------------------------------------------------------------- stampede
\* The verifications whose JWKS GET is in flight.
Fetching == {r \in DOMAIN vreq : vreq[r] # Idle}

\* A verification that passes the header check can start, and issue a GET
\* of its own, whenever the cache is empty or stale, whatever is in flight.
C22_State ==
  (FreeSlots(vreq) # {} /\ ~VerifierCacheFresh(now)) =>
    \A u \in Subjects :
      ENABLED (VerifyStart(GoodIdToken(u))
                 /\ Cardinality({r \in DOMAIN vreq : vreq'[r] # Idle})
                      = Cardinality(Fetching) + 1)

\* A GET that starts or ends changes the slot of its own request alone, and
\* a verification that ends without a GET of its own was served from a copy
\* younger than the TTL.
C22_Step ==
  /\ \A r \in DOMAIN vreq :
       vreq'[r] # vreq[r] => \A q \in DOMAIN vreq \ {r} : vreq'[q] = vreq[q]
  /\ (vreq' = vreq /\ v_out' # v_out /\ HeaderOk(v_out'.tok)) =>
       /\ VerifierCacheFresh(now)
       /\ v_out'.jwks = v_cache.jwks

\* C22: no stampede protection on the JWKS cache: when two verifications
\* start while the cache is empty or stale, each of them issues its own
\* JWKS fetch, and each fetch blocks only the request that issued it.
C22_NoStampedeProtection == []C22_State /\ [][C22_Step]_vars

\* C22 witness: two fetches are in flight, both issued at the same clock
\* value.
C22_Witness ==
  \E r, q \in Fetching : r # q /\ vreq[r].now0 = vreq[q].now0

\* ---------------------------------------------------------------- scopes
\* The maximal runs without a space of a string, in order of position.
RunStarts(str) ==
  {i \in DOMAIN str : str[i] # " " /\ (i = 1 \/ str[i - 1] = " ")}
RunEnd(str, i) ==
  CHOOSE j \in i..Len(str) :
    /\ \A m \in i..j : str[m] # " "
    /\ j = Len(str) \/ str[j + 1] = " "
RECURSIVE RunsFrom(_, _)
RunsFrom(str, i) ==
  IF \A j \in RunStarts(str) : j < i THEN <<>>
  ELSE LET s == CHOOSE j \in RunStarts(str) :
                  j >= i /\ \A m \in RunStarts(str) : m >= i => j <= m
       IN <<SubSeq(str, s, RunEnd(str, s))>> \o RunsFrom(str, RunEnd(str, s) + 1)

\* A string is blank: it holds nothing but whitespace.
Blank(str) == \A i \in DOMAIN str : str[i] \in Whitespace

\* The items the claim names, in its order: those of the scope string,
\* then those of the permissions array.
UsableItems(claims) ==
  (IF claims.scope.type = "str" /\ ~Blank(claims.scope.str)
     THEN RunsFrom(claims.scope.str, 1) ELSE <<>>)
  \o (IF claims.permissions.type = "list"
        THEN LET items == claims.permissions.items
                 strs == {i \in DOMAIN items :
                            items[i].type = "str" /\ items[i].str # <<>>}
                 RECURSIVE InOrder(_)
                 InOrder(i) ==
                   IF i > Len(items) THEN <<>>
                   ELSE (IF i \in strs THEN <<items[i].str>> ELSE <<>>)
                          \o InOrder(i + 1)
             IN InOrder(1)
        ELSE <<>>)

FirstIndex(xs, x) == CHOOSE i \in DOMAIN xs : xs[i] = x /\ \A j \in 1..(i - 1) : xs[j] # x

\* out lists the items of xs once each, in order of first occurrence.
FirstOccurrences(out, xs) ==
  /\ \A i, j \in DOMAIN out : i # j => out[i] # out[j]
  /\ {out[i] : i \in DOMAIN out} = {xs[i] : i \in DOMAIN xs}
  /\ \A i, j \in DOMAIN out :
       i < j => FirstIndex(xs, out[i]) < FirstIndex(xs, out[j])

\* C23: _scopes_from_claims returns the non-empty space-separated items of
\* the scope string (when it is a non-blank string) followed by the
\* non-empty string items of the permissions array (when it is a list),
\* with later duplicates dropped and first-occurrence order kept; the
\* result has no duplicates and is empty when neither claim is usable.
C23_ScopeDerivation ==
  scoped.called =>
    /\ FirstOccurrences(scoped.out, UsableItems(scoped.claims))
    /\ (UsableItems(scoped.claims) = <<>>) => scoped.out = <<>>

\* C23 witness: a scope string that repeats an item, and a permissions
\* array that holds a value that is not a string and a new item.
C23_Witness ==
  /\ scoped.called
  /\ scoped.claims.scope.str = <<"a", " ", "a">>
  /\ scoped.claims.permissions.type = "list"
  /\ scoped.claims.permissions.items
       = <<[type |-> "int", str |-> <<>>], [type |-> "str", str |-> <<"b">>]>>
  /\ scoped.out = <<<<"a">>, <<"b">>>>

\* ---------------------------------------------------------------- short-window dedupe
\* Two task rows created without an idempotency key for the same user with
\* the same subject and status.
Duplicates(x, y) ==
  /\ x.id # y.id
  /\ x.user_subject = y.user_subject
  /\ x.subject = y.subject /\ x.status = y.status
  /\ x.idempotency_key = NoKey /\ y.idempotency_key = NoKey

\* C24 as stated: of two create_task calls without an idempotency key for
\* the same user with identical fields within 10 seconds, in any sequence
\* or interleaving, only one creates a task row: no two such rows are
\* created less than 10 seconds apart.
C24_Original ==
  \A i, j \in DOMAIN tasks :
    Duplicates(tasks[i], tasks[j]) =>
      tasks[j].created_at - tasks[i].created_at >= DedupeWindow * SubSec
        \/ tasks[i].created_at - tasks[j].created_at >= DedupeWindow * SubSec

\* ---------------------------------------------------------------- refresh race
\* The access tokens minted by refresh exchanges that presented R.
PairsFrom(R) ==
  {t \in DOMAIN lineage : lineage[t].from = R /\ lineage[t].exp # 0}

\* C25 as stated: in every interleaving of two refresh requests that
\* present the same refresh token R, at most one request receives a new
\* access/refresh pair.
C25_Original == \A R \in Rotated : Cardinality(PairsFrom(R)) <= 1

\* ---------------------------------------------------------------- refresh scopes
\* C26 as stated: whatever scopes argument exchange_refresh_token is given,
\* the scopes recorded on the newly minted access token and refresh token
\* are a subset of the scopes of the refresh token presented.
C26_Original ==
  [][\A r \in DOMAIN rreq :
       RefreshStep(r) =>
         /\ access_tokens'[nTok' - 1].scopes \subseteq rreq[r].obj.scopes
         /\ refresh_tokens'[nTok'].scopes \subseteq rreq[r].obj.scopes]_vars

\* ---------------------------------------------------------------- revoke_token
\* Map m after the step is map m before it without key k.
Without(after, before, k) ==
  /\ DOMAIN after = DOMAIN before \ {k}
  /\ \A x \in DOMAIN after : after[x] = before[x]

\* revoke_token returns normally, removes the named token from both token
\* maps and leaves every other entry and the other maps as they were.
C27_Revokes ==
  (last'.op = "revoke_token" /\ last' # last) =>
    /\ last'.res = "ok"
    /\ Without(access_tokens', access_tokens, last'.arg)
    /\ Without(refresh_tokens', refresh_tokens, last'.arg)
    /\ UNCHANGED <<clients, pending, auth_codes, auth_code_subject,
                   jwks_cache, jwks_fetched_at>>

\* A token string that has been drawn and is in neither map is in neither
\* map after the step, and both loads return None for it.
C27_StaysGone ==
  \A t \in 1..nTok :
    /\ t \notin DOMAIN access_tokens =>
         t \notin DOMAIN access_tokens' /\ LoadAccessTokenAt(t, now)' = None
    /\ t \notin DOMAIN refresh_tokens =>
         t \notin DOMAIN refresh_tokens' /\ LoadRefreshToken("c1", t)' = None

\* C27: after revoke_token(T), load_access_token(T) and
\* load_refresh_token(T) return None in every later state; every other
\* access-token and refresh-token entry, the code maps and the pending map
\* are unchanged; revoking an unknown or already revoked token changes
\* nothing and raises nothing.
C27_RevokeExact == [][C27_Revokes /\ C27_StaysGone]_vars

\* C27 witness: an access token has just been revoked, the refresh token
\* issued with it is still loaded, and another access token is stored.
C27_Witness ==
  /\ last.op = "revoke_token"
  /\ last.arg \in DOMAIN lineage /\ lineage[last.arg].exp # 0
  /\ last.arg \notin DOMAIN access_tokens
  /\ LoadRefreshToken("c1", last.arg + 1) # None
  /\ DOMAIN access_tokens # {}

\* ---------------------------------------------------------------- expiry
\* The only step that removes an entry of each map.
C28_Step ==
  /\ \A s \in DOMAIN pending :
       s \notin DOMAIN pending' => last'.op = "callback" /\ last'.arg = s
  /\ \A code \in DOMAIN auth_codes :
       code \notin DOMAIN auth_codes'
         => last' = Call("exchange_authorization_code", code, "ok")
  /\ \A code \in DOMAIN auth_code_subject :
       code \notin DOMAIN auth_code_subject'
         => last' = Call("exchange_authorization_code", code, "ok")
  /\ \A t \in DOMAIN access_tokens :
       t \notin DOMAIN access_tokens' => last' = Call("revoke_token", t, "ok")

\* C28: an entry leaves the pending map only through
\* complete_auth0_callback with its state, the authorization-code map and
\* the subject side-map only through a successful
\* exchange_authorization_code, and the access-token map only through
\* revoke_token; the passage of time, a load that returns None for an
\* expired entry and failed calls remove nothing.
C28_ExpiryKeepsEntries == [][C28_Step]_vars

\* C28 witness: load_access_token has just returned None for an expired
\* access token that is still stored, beside an expired code that is still
\* stored with its subject.
C28_Witness ==
  /\ last.op = "load_access_token" /\ last.res = "none"
  /\ last.arg \in DOMAIN access_tokens
  /\ Expired(access_tokens[last.arg], now)
  /\ \E code \in DOMAIN auth_codes :
       auth_codes[code].expires_at < now /\ code \in DOMAIN auth_code_subject

\* ---------------------------------------------------------------- JWKS stamp
\* C29: the fetched-at value of each JWKS cache never moves backwards over
\* any interleaving of the calls that fetch the document: a call reads the
\* clock, awaits the GET, then writes the document under the clock value it
\* read.
C29_Original ==
  [][ /\ jwks_fetched_at' >= jwks_fetched_at
      /\ (v_cache # None /\ v_cache' # None
            => v_cache'.fetched_at >= v_cache.fetched_at) ]_vars

\* ---------------------------------------------------------------- cart
\* C30: after any sequence of shopping_cart calls with any item quantities
\* CartItem accepts, every entry of CART_STORE has a quantity of at least 1.
C30_Original == \A v \in DOMAIN cart : cart[v] >= 1

====
